---- MODULE Spec2Model ----
(***************************************************************************)
(* Model of the Math-Tool calculator core (src/CalculatorModel.py), of the *)
(* server that holds it (src/Server.py) and of the client's connection     *)
(* (src/Client.py).                                                        *)
(*                                                                         *)
(* Python strings are sequences of one-character strings.  Python numbers  *)
(* are records [t, n, d]: t is the Python type ("int", "float", or         *)
(* "tuple" for the empty tuple that eval("()") yields), n/d the value as a *)
(* reduced fraction (d = 1 for every int).  Floats are modelled by their   *)
(* exact rational value; the sign of a float zero is not represented.      *)
(* The outcome of a call is a record [ok, str, num, err, cause]: the       *)
(* returned string or number when ok, the ValueError's message (its fixed  *)
(* text, without the interpolated token) when not.                         *)
(***************************************************************************)
EXTENDS Integers, Sequences, FiniteSets, TLC

VARIABLES
    to_cache,      \* lru_cache of to_decimal: <<[key, val]>>, least recent first
    from_cache,    \* lru_cache of from_decimal
    conv_cache,    \* lru_cache of convert_to_decimal
    last,          \* the last call made on the model and what it returned
    ncalls,        \* number of calls made so far
    active_connections,  \* MathServer.active_connections
    handler,       \* per connection: the server's handle_client thread
    client,        \* per connection: the MathClient (or other peer) at the far end
    c2s,           \* per connection: bytes sent by the peer, not yet read by the server
    s2c,           \* per connection: bytes sent by the server, not yet read by the peer
    running,       \* MathServer.running
    accepting,     \* run() is in its accept loop
    equation,      \* the text of one side of an equation, as typed so far
    multiplied     \* what add_multiplication made of it

calc_vars == <<to_cache, from_cache, conv_cache, last, ncalls>>

net_vars == <<active_connections, handler, client, c2s, s2c, running, accepting>>

util_vars == <<equation, multiplied>>

vars == <<to_cache, from_cache, conv_cache, last, ncalls,
          active_connections, handler, client, c2s, s2c, running, accepting,
          equation, multiplied>>

----------------------------------------------------------------------------
(* Characters and Python numbers                                           *)

DecDigits == <<"0", "1", "2", "3", "4", "5", "6", "7", "8", "9">>

HexDigits == DecDigits \o <<"A", "B", "C", "D", "E", "F">>

Range(s) == {s[i] : i \in DOMAIN s}

\* F(v) with v evaluated once: a local variable assignment
Bind(v, F(_)) == CHOOSE r \in {F(x) : x \in {v}} : TRUE

\* str.upper() on one character (the lower-case letters of the model are a-f)
Upper(c) ==
    CASE c = "a" -> "A" [] c = "b" -> "B" [] c = "c" -> "C"
      [] c = "d" -> "D" [] c = "e" -> "E" [] c = "f" -> "F"
      [] OTHER -> c

UpperStr(s) == [i \in DOMAIN s |-> Upper(s[i])]

\* the regex class [0-9A-Fa-f]
IsHexChar(c) == Upper(c) \in Range(HexDigits)

\* the regex class [\+\-\*\/\(\)]
IsOpChar(c) == c \in {"+", "-", "*", "/", "(", ")"}

\* the regex class \s, and str.isspace(): the model's whitespace is blank and tab
IsSpace(c) == c \in {" ", "\t"}

\* value of one (upper-case) digit character
DigitVal(c) == CHOOSE v \in 0..15 : HexDigits[v + 1] = c

Abs(x) == IF x < 0 THEN -x ELSE x

RECURSIVE Gcd(_, _)
Gcd(a, b) == IF b = 0 THEN a ELSE Gcd(b, a % b)

RECURSIVE Pow(_, _)
Pow(b, e) == IF e = 0 THEN 1 ELSE b * Pow(b, e - 1)

\* decimal digits (values 0..9, most significant first) of a natural number
RECURSIVE BigOfNat(_)
BigOfNat(n) == IF n = 0 THEN <<>> ELSE Append(BigOfNat(n \div 10), n % 10)

\* the natural number with decimal digits b
RECURSIVE NatOfBig(_)
NatOfBig(b) ==
    IF b = <<>> THEN 0 ELSE NatOfBig(SubSeq(b, 1, Len(b) - 1)) * 10 + b[Len(b)]

\* a Python number of type t: Python ints are unbounded, so a whole number
\* of ten or more decimal digits is kept as its sign n and its decimal
\* digits w; every other number is n/d with w empty
PyWide(t, sign, b) ==
    IF Len(b) <= 9 THEN [t |-> t, n |-> sign * NatOfBig(b), d |-> 1, w |-> <<>>]
    ELSE [t |-> t, n |-> sign, d |-> 1, w |-> b]

\* a Python number of type t with value n/d, reduced
Num(t, n, d) ==
    LET g == Gcd(Abs(n), Abs(d))
        s == IF d < 0 THEN -1 ELSE 1
        rn == s * (n \div g)
        rd == s * (d \div g)
    IN  IF rd = 1 /\ Abs(rn) >= 1000000000
        THEN PyWide(t, IF rn < 0 THEN -1 ELSE 1, BigOfNat(Abs(rn)))
        ELSE [t |-> t, n |-> rn, d |-> rd, w |-> <<>>]

PyInt(n) == [t |-> "int", n |-> n, d |-> 1, w |-> <<>>]

PyFloat(n, d) == Num("float", n, d)

NoNum == [t |-> "none", n |-> 0, d |-> 1, w |-> <<>>]

\* Python's == and hash() on numbers: 2 == 2.0 and hash(2) == hash(2.0)
NumEq(x, y) == x.n = y.n /\ x.d = y.d /\ x.w = y.w

IsNumeric(x) == x.t \in {"int", "float"}

\* outcomes of a call
OkStr(s) == [ok |-> TRUE, str |-> s, num |-> NoNum, err |-> "", cause |-> ""]

OkNum(x) == [ok |-> TRUE, str |-> <<>>, num |-> x, err |-> "", cause |-> ""]

OkNone == [ok |-> TRUE, str |-> <<>>, num |-> NoNum, err |-> "", cause |-> ""]

Raise(msg) == [ok |-> FALSE, str |-> <<>>, num |-> NoNum, err |-> msg, cause |-> ""]

\* raise ValueError(f"<msg>: {str(e)}"): cause is the text of e
RaiseFrom(msg, cause) ==
    [ok |-> FALSE, str |-> <<>>, num |-> NoNum, err |-> msg, cause |-> cause]

----------------------------------------------------------------------------
(* base_configs                                                            *)

Bases == {"BIN", "OCT", "DEC", "HEX"}

base_int(base) ==
    CASE base = "BIN" -> 2 [] base = "OCT" -> 8
      [] base = "DEC" -> 10 [] base = "HEX" -> 16

valid_digits(base) == {HexDigits[i] : i \in 1..base_int(base)}

max_display_digits(base) ==
    CASE base = "BIN" -> 64 [] base = "OCT" -> 22
      [] base = "DEC" -> 20 [] base = "HEX" -> 16

\* get_max_digits returning one digit more than base_configs allows
get_max_digits_one_more(base) == max_display_digits(base) + 1

get_max_digits(base) == max_display_digits(base)

----------------------------------------------------------------------------
(* Number <-> text conversions of the Python runtime                       *)

\* digits of n >= 0 in radix r, most significant first ("" for 0)
RECURSIVE Digits(_, _)
Digits(n, r) ==
    IF n = 0 THEN <<>> ELSE Append(Digits(n \div r, r), HexDigits[(n % r) + 1])

\* str(n) for an int
StrInt(n) ==
    IF n = 0 THEN <<"0">>
    ELSE IF n < 0 THEN <<"-">> \o Digits(-n, 10) ELSE Digits(n, 10)

\* digits after the decimal point of rem/d (rem < d), at most k of them
RECURSIVE FracDigits(_, _, _)
FracDigits(rem, d, k) ==
    IF rem = 0 \/ k = 0 THEN <<>>
    ELSE <<HexDigits[((rem * 10) \div d) + 1]>> \o FracDigits((rem * 10) % d, d, k - 1)

\* repr() keeps at most 17 significant digits; the model prints 16 decimals
FloatPrecision == 16

\* str(x) for a float of value n/d: the positional expansion, exact when it
\* terminates within FloatPrecision decimals and cut there otherwise
StrFloat(n, d) ==
    LET a  == Abs(n)
        ip == a \div d
        fr == FracDigits(a % d, d, FloatPrecision)
    IN  (IF n < 0 THEN <<"-">> ELSE <<>>)
        \o StrInt(ip) \o <<".">> \o (IF fr = <<>> THEN <<"0">> ELSE fr)

\* the digit of b that counts 10**k, 0 beyond its length
BigDigit(b, k) == IF k < Len(b) THEN b[Len(b) - k] ELSE 0

\* arithmetic of unbounded ints on decimal digits: the digits of b * r + c
\* from the one counting 10**k on, for small r and a carry c
RECURSIVE BigMulAddFrom(_, _, _, _)
BigMulAddFrom(b, r, c, k) ==
    IF k >= Len(b) THEN BigOfNat(c)
    ELSE Bind(BigDigit(b, k) * r + c, LAMBDA v :
             Append(BigMulAddFrom(b, r, v \div 10, k + 1), v % 10))

BigMulAdd(b, r, c) == BigMulAddFrom(b, r, c, 0)

\* b without its leading zeros
RECURSIVE BigTrim(_)
BigTrim(b) == IF b # <<>> /\ b[1] = 0 THEN BigTrim(Tail(b)) ELSE b

\* long division of b by a small r from digit i on, rem carried in
RECURSIVE BigDivModFrom(_, _, _, _)
BigDivModFrom(b, r, i, rem) ==
    IF i > Len(b) THEN [q |-> <<>>, rem |-> rem]
    ELSE Bind(rem * 10 + b[i], LAMBDA v :
         Bind(BigDivModFrom(b, r, i + 1, v % r), LAMBDA rest :
             [q |-> <<v \div r>> \o rest.q, rem |-> rest.rem]))

\* divmod(b, r)
BigDivMod(b, r) ==
    Bind(BigDivModFrom(b, r, 1, 0), LAMBDA x : [q |-> BigTrim(x.q), rem |-> x.rem])

\* digits of b in radix r, most significant first ("" for 0)
RECURSIVE BigDigits(_, _)
BigDigits(b, r) ==
    IF b = <<>> THEN <<>>
    ELSE Bind(BigDivMod(b, r), LAMBDA x :
             Append(BigDigits(x.q, r), HexDigits[x.rem + 1]))

\* the digits of a + b + c from the one counting 10**k on, c a carry
RECURSIVE BigAddFrom(_, _, _, _)
BigAddFrom(a, b, c, k) ==
    IF k >= Len(a) /\ k >= Len(b) THEN BigOfNat(c)
    ELSE Bind(BigDigit(a, k) + BigDigit(b, k) + c, LAMBDA v :
             Append(BigAddFrom(a, b, v \div 10, k + 1), v % 10))

BigAdd(a, b) == BigAddFrom(a, b, 0, 0)

\* the digits of a - b - c from the one counting 10**k on, for a >= b and a
\* borrow c; leading zeros kept
RECURSIVE BigSubFrom(_, _, _, _)
BigSubFrom(a, b, c, k) ==
    IF k >= Len(a) THEN <<>>
    ELSE Bind(BigDigit(a, k) - BigDigit(b, k) - c, LAMBDA v :
             Append(BigSubFrom(a, b, IF v < 0 THEN 1 ELSE 0, k + 1),
                    IF v < 0 THEN v + 10 ELSE v))

BigSub(a, b) == BigTrim(BigSubFrom(a, b, 0, 0))

\* a < b
BigLess(a, b) ==
    \/ Len(a) < Len(b)
    \/ /\ Len(a) = Len(b)
       /\ \E i \in DOMAIN a : a[i] < b[i] /\ \A j \in 1..(i - 1) : a[j] = b[j]

\* r ** k, four factors at a time
RECURSIVE BigPow(_, _)
BigPow(r, k) ==
    IF k = 0 THEN <<1>>
    ELSE IF k >= 4
         THEN Bind(BigPow(r, k - 4), LAMBDA b : BigMulAdd(b, r * r * r * r, 0))
    ELSE Bind(BigPow(r, k - 1), LAMBDA b : BigMulAdd(b, r, 0))

\* the magnitude of a whole Python number, as decimal digits
Mag(x) == IF x.w = <<>> THEN BigOfNat(Abs(x.n)) ELSE x.w

Sign(x) == IF x.n < 0 THEN -1 ELSE 1

DigitChars(b) == [i \in DOMAIN b |-> DecDigits[b[i] + 1]]

\* b without its trailing zeros
RECURSIVE StripTrailingZeros(_)
StripTrailingZeros(b) ==
    IF b # <<>> /\ b[Len(b)] = 0
    THEN StripTrailingZeros(SubSeq(b, 1, Len(b) - 1)) ELSE b

\* str(x) for a float whose value is the whole number b >= 10**9: positional
\* below 10**16, else the exponent form on 17 significant digits (the
\* longest repr() prints)
StrFloatWide(b) ==
    IF Len(b) <= 16 THEN DigitChars(b) \o <<".", "0">>
    ELSE
    LET head == SubSeq(b, 1, 17)
        r    == IF Len(b) > 17 /\ b[18] >= 5 THEN BigAdd(head, <<1>>) ELSE head
        exp  == Len(b) - 1 + (IF Len(r) > 17 THEN 1 ELSE 0)
        sig  == StripTrailingZeros(SubSeq(r, 1, 17))
    IN  <<DecDigits[sig[1] + 1]>>
        \o (IF Len(sig) > 1 THEN <<".">> \o DigitChars(Tail(sig)) ELSE <<>>)
        \o <<"e", "+">> \o StrInt(exp)

\* str(x) for a Python number
StrNum(x) ==
    IF x.w # <<>>
    THEN (IF x.n < 0 THEN <<"-">> ELSE <<>>)
         \o (IF x.t = "int" THEN DigitChars(x.w) ELSE StrFloatWide(x.w))
    ELSE IF x.t = "int" THEN StrInt(x.n) ELSE StrFloat(x.n, x.d)

\* hex(n)[2:], oct(n)[2:], bin(n)[2:] for an int n > 0
IntDigits(x, r) == IF x.w = <<>> THEN Digits(x.n, r) ELSE BigDigits(x.w, r)

\* int(s, r) / float(s) on a non-empty string of valid digits: positional sum
RECURSIVE PosValueUpTo(_, _, _)
PosValueUpTo(s, r, k) ==
    IF k = 0 THEN 0 ELSE PosValueUpTo(s, r, k - 1) * r + DigitVal(s[k])

PosValue(s, r) == PosValueUpTo(s, r, Len(s))

\* the same positional sum on decimal digits, for strings of any length
RECURSIVE BigPosValueUpTo(_, _, _)
BigPosValueUpTo(s, r, k) ==
    IF k = 0 THEN <<>>
    ELSE Bind(BigPosValueUpTo(s, r, k - 1), LAMBDA b : BigMulAdd(b, r, DigitVal(s[k])))

\* int(s, r) as a Python int
IntOfDigits(s, r) ==
    IF Len(s) <= 7 THEN PyInt(PosValue(s, r))
    ELSE PyWide("int", 1, BigPosValueUpTo(s, r, Len(s)))

----------------------------------------------------------------------------
(* validate_expression                                                     *)

\* end of the maximal run of [0-9A-Fa-f] starting at i
RECURSIVE HexRunEnd(_, _)
HexRunEnd(expr, i) ==
    IF i < Len(expr) /\ IsHexChar(expr[i + 1]) THEN HexRunEnd(expr, i + 1) ELSE i

\* end of the maximal run of \s starting at i
RECURSIVE SpaceRunEnd(_, _)
SpaceRunEnd(expr, i) ==
    IF i < Len(expr) /\ IsSpace(expr[i + 1]) THEN SpaceRunEnd(expr, i + 1) ELSE i

\* re.findall(r'([0-9A-Fa-f]+|[\+\-\*\/\(\)]|\s+)', expr) from position i:
\* a character that starts no alternative is skipped by the scan
RECURSIVE FindValidateTokens(_, _)
FindValidateTokens(expr, i) ==
    IF i > Len(expr) THEN <<>>
    ELSE IF IsHexChar(expr[i])
         THEN Bind(HexRunEnd(expr, i), LAMBDA j :
                  <<SubSeq(expr, i, j)>> \o FindValidateTokens(expr, j + 1))
    ELSE IF IsOpChar(expr[i])
         THEN <<<<expr[i]>>>> \o FindValidateTokens(expr, i + 1)
    ELSE IF IsSpace(expr[i])
         THEN Bind(SpaceRunEnd(expr, i), LAMBDA j :
                  <<SubSeq(expr, i, j)>> \o FindValidateTokens(expr, j + 1))
    ELSE FindValidateTokens(expr, i + 1)

\* str.isspace(): non-empty and all whitespace
IsSpaceStr(s) == s # <<>> /\ \A i \in DOMAIN s : IsSpace(s[i])

SelectNonSpace(tokens) == SelectSeq(tokens, LAMBDA t : ~IsSpaceStr(t))

\* token in '+-*/'
IsOperatorToken(token) == Len(token) = 1 /\ token[1] \in {"+", "-", "*", "/"}

\* all(d in valid_digits for d in token.upper())
AllValidDigits(token, base) ==
    \A i \in DOMAIN token : Upper(token[i]) \in valid_digits(base)

\* the loop over the tokens; st = [prev, paren, ops, nums] are the loop's
\* prev_token_type, paren_count, operator_count and number_count
RECURSIVE ValidateLoop(_, _, _, _)
ValidateLoop(tokens, i, st, base) ==
    IF i > Len(tokens) THEN st
    ELSE
    LET token == tokens[i]
        Continue(st2) == ValidateLoop(tokens, i + 1, st2, base)
    IN
    IF IsOperatorToken(token) THEN
        IF /\ st.prev \in {"None", "operator", "open_paren"}
           /\ (token[1] \notin {"+", "-"} \/ st.prev = "operator")
        THEN [st EXCEPT !.err = "Invalid operator placement"]
        ELSE Bind([st EXCEPT !.ops = @ + 1, !.prev = "operator"], Continue)
    ELSE IF token = <<"(">> THEN
        IF st.prev = "number"
        THEN [st EXCEPT !.err = "Missing operator before parenthesis"]
        ELSE Bind([st EXCEPT !.paren = @ + 1, !.prev = "open_paren"], Continue)
    ELSE IF token = <<")">> THEN
        IF st.prev \in {"None", "operator", "open_paren"}
        THEN [st EXCEPT !.err = "Invalid closing parenthesis placement"]
        ELSE IF st.paren - 1 < 0
        THEN [st EXCEPT !.err = "Unmatched closing parenthesis"]
        ELSE Bind([st EXCEPT !.paren = @ - 1, !.prev = "close_paren"], Continue)
    ELSE
        IF ~AllValidDigits(token, base)
        THEN [st EXCEPT !.err = "Invalid digit(s)"]
        ELSE IF Len(token) > get_max_digits(base)
        THEN [st EXCEPT !.err = "Number exceeds maximum length"]
        ELSE IF st.prev = "close_paren"
        THEN [st EXCEPT !.err = "Missing operator after parenthesis"]
        ELSE Bind([st EXCEPT !.prev = "number", !.nums = @ + 1], Continue)

\* the checks made after the loop, without the one for an unclosed parenthesis
ValidateEnd_unclosed_allowed(st) ==
    IF st.err # "" THEN Raise(st.err)
    ELSE IF st.prev = "operator" THEN Raise("Expression cannot end with an operator")
    ELSE IF st.nums = 0 THEN Raise("Expression must contain at least one number")
    ELSE IF st.ops >= st.nums
         THEN Raise("Too many operators for the number of operands")
    ELSE OkNone

\* the checks made after the loop
ValidateEnd(st) ==
    IF st.err # "" THEN Raise(st.err)
    ELSE IF st.paren > 0 THEN Raise("Unclosed parenthesis")
    ELSE IF st.prev = "operator" THEN Raise("Expression cannot end with an operator")
    ELSE IF st.nums = 0 THEN Raise("Expression must contain at least one number")
    ELSE IF st.ops >= st.nums
         THEN Raise("Too many operators for the number of operands")
    ELSE OkNone

\* validate_expression(expr, base): OkNone, or the ValueError raised
validate_expression(expr, base) ==
    IF expr = <<>> \/ IsSpaceStr(expr) THEN Raise("Expression cannot be empty")
    ELSE IF base \notin Bases THEN Raise("Invalid base")
    ELSE Bind(SelectNonSpace(FindValidateTokens(expr, 1)), LAMBDA tokens :
        IF tokens = <<>> THEN Raise("Expression contains no valid tokens")
        ELSE Bind(ValidateLoop(tokens, 1,
                      [prev |-> "None", paren |-> 0, ops |-> 0, nums |-> 0, err |-> ""],
                      base),
                  ValidateEnd))

----------------------------------------------------------------------------
(* to_decimal and from_decimal, as computed on a cache miss                *)

\* the body of to_decimal(number_str, base)
to_decimal_body(number_str, base) ==
    IF number_str = <<>> THEN Raise("Empty number string")
    ELSE
    LET is_negative == number_str[1] = "-"
        digits == IF is_negative THEN Tail(number_str) ELSE number_str
    IN  IF base \notin Bases THEN Raise("Invalid base")
        ELSE IF ~AllValidDigits(digits, base) THEN Raise("Invalid digit(s)")
        ELSE IF digits = <<>> THEN Raise("Invalid number")
        ELSE
        LET result == IF base = "DEC"
                      THEN PyFloat(PosValue(UpperStr(digits), base_int(base)), 1)
                      ELSE IntOfDigits(UpperStr(digits), base_int(base))
        IN  OkNum(IF is_negative THEN [result EXCEPT !.n = -@] ELSE result)

\* number > base_int ** max_display_digits - 1 for an int number >= 0, decided
\* on the digit count
ExceedsMaxValue(number, base) ==
    Len(IntDigits(number, base_int(base))) > max_display_digits(base)

\* the text of the marker from_decimal returns for a float in a non-DEC base
NonIntegerMarker(base) == <<" (non-integer, cannot represent in ", base, ")">>

\* from_decimal with the DEC branch printing every number as a float
from_decimal_body_float_dec(number, base) ==
    IF ~IsNumeric(number) THEN Raise("Number must be an integer or float")
    ELSE IF base \notin Bases THEN Raise("Invalid base")
    ELSE IF number.n = 0 THEN OkStr(<<"0">>)
    ELSE
    LET is_negative == number.n < 0
        mag == [number EXCEPT !.n = Abs(number.n)]
        sign == IF is_negative THEN <<"-">> ELSE <<>>
    IN  IF mag.t = "int" /\ ExceedsMaxValue(mag, base)
        THEN Raise("Number too large")
        ELSE IF base = "DEC" THEN OkStr(StrNum([number EXCEPT !.t = "float"]))
        ELSE IF mag.t = "float"
             THEN OkStr(sign \o StrNum(mag) \o NonIntegerMarker(base))
        ELSE OkStr(sign \o IntDigits(mag, base_int(base)))

\* the body of from_decimal(number, base)
from_decimal_body(number, base) ==
    IF ~IsNumeric(number) THEN Raise("Number must be an integer or float")
    ELSE IF base \notin Bases THEN Raise("Invalid base")
    ELSE IF number.n = 0 THEN OkStr(<<"0">>)
    ELSE
    LET is_negative == number.n < 0
        mag == [number EXCEPT !.n = Abs(number.n)]
        sign == IF is_negative THEN <<"-">> ELSE <<>>
    IN  IF mag.t = "int" /\ ExceedsMaxValue(mag, base)
        THEN Raise("Number too large")
        ELSE IF base = "DEC" THEN OkStr(StrNum(number))
        ELSE IF mag.t = "float"
             THEN OkStr(sign \o StrNum(mag) \o NonIntegerMarker(base))
        ELSE OkStr(sign \o IntDigits(mag, base_int(base)))

----------------------------------------------------------------------------
(* functools.lru_cache(maxsize=128)                                        *)

maxsize == 128

\* keys of to_decimal and convert_to_decimal are (str, str): exact equality
StrKeyEq(k1, k2) == k1 = k2

\* keys of from_decimal are (number, str): numbers compare by value, so the
\* int 2 and the float 2.0 are one key
NumKeyEq(k1, k2) == NumEq(k1.arg, k2.arg) /\ k1.base = k2.base

\* index of the entry for key, 0 when there is none
CacheFind(cache, key, KeyEq(_, _)) ==
    IF \E i \in DOMAIN cache : KeyEq(cache[i].key, key)
    THEN CHOOSE i \in DOMAIN cache : KeyEq(cache[i].key, key)
    ELSE 0

\* a hit makes the entry the most recently used
CacheTouch(cache, i) ==
    SubSeq(cache, 1, i - 1) \o SubSeq(cache, i + 1, Len(cache)) \o <<cache[i]>>

\* a miss whose call returned stores the result, evicting the least
\* recently used entry of a full cache; a call that raised stores nothing
CacheStore(cache, key, res) ==
    IF ~res.ok THEN cache
    ELSE IF Len(cache) >= maxsize
         THEN Append(Tail(cache), [key |-> key, val |-> res])
    ELSE Append(cache, [key |-> key, val |-> res])

\* to_decimal(number_str, base) on a model whose to_decimal cache is tc
to_decimal(tc, number_str, base) ==
    LET key == [arg |-> number_str, base |-> base]
        i   == CacheFind(tc, key, StrKeyEq)
    IN  IF i # 0 THEN [res |-> tc[i].val, tc |-> CacheTouch(tc, i)]
        ELSE Bind(to_decimal_body(number_str, base), LAMBDA r :
                 [res |-> r, tc |-> CacheStore(tc, key, r)])

\* from_decimal(number, base) on a model whose from_decimal cache is fc
from_decimal(fc, number, base) ==
    LET key == [arg |-> number, base |-> base]
        i   == CacheFind(fc, key, NumKeyEq)
    IN  IF i # 0 THEN [res |-> fc[i].val, fc |-> CacheTouch(fc, i)]
        ELSE Bind(from_decimal_body(number, base), LAMBDA r :
                 [res |-> r, fc |-> CacheStore(fc, key, r)])

----------------------------------------------------------------------------
(* convert_to_decimal                                                      *)

\* re.sub(r'^\s*<sign>\s*', repl, expr): only a match at the very start
SubSignAtStart(expr, sign, repl) ==
    LET a == SpaceRunEnd(expr, 0) + 1      \* first non-blank position
    IN  IF a <= Len(expr) /\ expr[a] = sign
        THEN repl \o SubSeq(expr, SpaceRunEnd(expr, a) + 1, Len(expr))
        ELSE expr

\* re.sub(r'\(\s*<sign>\s*', repl, expr): every match, left to right, from i
RECURSIVE SubSignAfterParen(_, _, _, _)
SubSignAfterParen(expr, i, sign, repl) ==
    IF i > Len(expr) THEN <<>>
    ELSE
    Bind(SpaceRunEnd(expr, i) + 1, LAMBDA a :
        IF expr[i] = "(" /\ a <= Len(expr) /\ expr[a] = sign
        THEN Bind(SpaceRunEnd(expr, a) + 1, LAMBDA j :
                 repl \o SubSignAfterParen(expr, j, sign, repl))
        ELSE <<expr[i]>> \o SubSignAfterParen(expr, i + 1, sign, repl))

\* the four re.sub calls that normalise unary signs
NormaliseUnary(expr) ==
    Bind(SubSignAtStart(expr, "-", <<"-">>), LAMBDA e1 :
    Bind(SubSignAtStart(e1, "+", <<>>), LAMBDA e2 :
    Bind(SubSignAfterParen(e2, 1, "-", <<"(", "-">>), LAMBDA e3 :
         SubSignAfterParen(e3, 1, "+", <<"(">>))))

\* re.findall(r'(-?[0-9A-Fa-f]+|[\+\-\*\/\(\)])', expr) from position i: a '-'
\* directly before a digit is taken into the numeral's token
RECURSIVE FindConvertTokens(_, _)
FindConvertTokens(expr, i) ==
    IF i > Len(expr) THEN <<>>
    ELSE IF expr[i] = "-" /\ i < Len(expr) /\ IsHexChar(expr[i + 1])
         THEN Bind(HexRunEnd(expr, i + 1), LAMBDA j :
                  <<SubSeq(expr, i, j)>> \o FindConvertTokens(expr, j + 1))
    ELSE IF IsHexChar(expr[i])
         THEN Bind(HexRunEnd(expr, i), LAMBDA j :
                  <<SubSeq(expr, i, j)>> \o FindConvertTokens(expr, j + 1))
    ELSE IF IsOpChar(expr[i])
         THEN <<<<expr[i]>>>> \o FindConvertTokens(expr, i + 1)
    ELSE FindConvertTokens(expr, i + 1)

\* token in '+-*/()'
IsOperatorOrParenToken(token) == Len(token) = 1 /\ IsOpChar(token[1])

\* the loop that builds dec_expr, calling the cached to_decimal per numeral
RECURSIVE ConvertLoop(_, _, _, _, _)
ConvertLoop(tokens, i, base, tc, dec_expr) ==
    IF i > Len(tokens) THEN [res |-> OkStr(dec_expr), tc |-> tc]
    ELSE IF IsOperatorOrParenToken(tokens[i])
         THEN ConvertLoop(tokens, i + 1, base, tc, dec_expr \o tokens[i])
    ELSE Bind(to_decimal(tc, tokens[i], base), LAMBDA c :
             IF ~c.res.ok
             THEN [res |-> RaiseFrom("Error converting", c.res.err), tc |-> c.tc]
             ELSE Bind(dec_expr \o StrNum(c.res.num), LAMBDA d :
                      ConvertLoop(tokens, i + 1, base, c.tc, d)))

\* the body of convert_to_decimal(expr, base)
convert_to_decimal_body(tc, expr, base) ==
    IF base = "DEC" THEN [res |-> OkStr(expr), tc |-> tc]
    ELSE Bind(validate_expression(expr, base), LAMBDA v :
             IF ~v.ok THEN [res |-> v, tc |-> tc]
             ELSE Bind(NormaliseUnary(expr), LAMBDA e :
                  Bind(FindConvertTokens(e, 1), LAMBDA tokens :
                       ConvertLoop(tokens, 1, base, tc, <<>>))))

\* convert_to_decimal(expr, base) on a model with caches tc and cc
convert_to_decimal(tc, cc, expr, base) ==
    LET key == [arg |-> expr, base |-> base]
        i   == CacheFind(cc, key, StrKeyEq)
    IN  IF i # 0 THEN [res |-> cc[i].val, tc |-> tc, cc |-> CacheTouch(cc, i)]
        ELSE Bind(convert_to_decimal_body(tc, expr, base), LAMBDA r :
                 [res |-> r.res, tc |-> r.tc, cc |-> CacheStore(cc, key, r.res)])

----------------------------------------------------------------------------
(* eval(dec_expr, {"__builtins__": {}}, {}): Python's expression grammar   *)
(* over decimal integer literals, + - * / ** //, parentheses, blanks/tabs  *)

PyAlphabet == Range(DecDigits) \cup {"+", "-", "*", "/", "(", ")", " ", "\t"}

\* end of the maximal run of decimal digits starting at i
RECURSIVE DecRunEnd(_, _)
DecRunEnd(s, i) ==
    IF i < Len(s) /\ s[i + 1] \in Range(DecDigits) THEN DecRunEnd(s, i + 1) ELSE i

\* a decimal literal with a leading zero is legal only if it is all zeros
LegalLiteral(lit) == Len(lit) = 1 \/ lit[1] # "0" \/ \A k \in DOMAIN lit : lit[k] = "0"

\* the Python tokenizer: tokens [s, n], s = "num" (value n), an operator, or
\* "bad" for a literal the tokenizer rejects
RECURSIVE PyTokens(_, _)
PyTokens(s, i) ==
    IF i > Len(s) THEN <<>>
    ELSE IF IsSpace(s[i]) THEN PyTokens(s, i + 1)
    ELSE IF s[i] \in Range(DecDigits) THEN
        Bind(DecRunEnd(s, i), LAMBDA j :
        Bind(SubSeq(s, i, j), LAMBDA lit :
            <<[s |-> IF LegalLiteral(lit) THEN "num" ELSE "bad",
               n |-> IntOfDigits(lit, 10)]>> \o PyTokens(s, j + 1)))
    ELSE IF s[i] \in {"*", "/"} /\ i < Len(s) /\ s[i + 1] = s[i]
         THEN <<[s |-> IF s[i] = "*" THEN "**" ELSE "//", n |-> NoNum]>>
              \o PyTokens(s, i + 2)
    ELSE <<[s |-> s[i], n |-> NoNum]>> \o PyTokens(s, i + 1)

EmptyTuple == [t |-> "tuple", n |-> 0, d |-> 1, w |-> <<>>]

\* the result of parsing and evaluating a phrase: pos is the next token, syn
\* is FALSE on a syntax error, rt names the first exception evaluation raises
SyntaxErr == [pos |-> 0, syn |-> FALSE, rt |-> "", v |-> NoNum]

Value(pos, v) == [pos |-> pos, syn |-> TRUE, rt |-> "", v |-> v]

Raised(pos, exc) == [pos |-> pos, syn |-> TRUE, rt |-> exc, v |-> NoNum]

ResultType(x, y) == IF x.t = "float" \/ y.t = "float" THEN "float" ELSE "int"

\* floor(a / b) for b # 0
FloorDiv(a, b) == IF b > 0 THEN a \div b ELSE (-a) \div (-b)

\* x + y for ints of any size
WideAdd(x, y) ==
    IF Sign(x) = Sign(y) THEN PyWide("int", Sign(x), BigAdd(Mag(x), Mag(y)))
    ELSE IF BigLess(Mag(x), Mag(y))
         THEN PyWide("int", Sign(y), BigSub(Mag(y), Mag(x)))
    ELSE PyWide("int", Sign(x), BigSub(Mag(x), Mag(y)))

\* x op y when x or y has ten or more digits: sums and differences of ints
\* are computed, every other operation is outside the model
WideOp(op, x, y, pos) ==
    IF op \in {"/", "//"} /\ y.n = 0 THEN Raised(pos, "ZeroDivisionError")
    ELSE IF x.t = "int" /\ y.t = "int" /\ op = "+" THEN Value(pos, WideAdd(x, y))
    ELSE IF x.t = "int" /\ y.t = "int" /\ op = "-"
         THEN Value(pos, WideAdd(x, [y EXCEPT !.n = -@]))
    ELSE Raised(pos, "UnmodelledWide")

\* x op y on Python values, at token position pos
BinaryOp(op, x, y, pos) ==
    IF x.t = "tuple" \/ y.t = "tuple" THEN
        IF \/ op = "+" /\ x.t = "tuple" /\ y.t = "tuple"
           \/ op = "*" /\ {x.t, y.t} = {"tuple", "int"}
        THEN Value(pos, EmptyTuple)
        ELSE Raised(pos, "TypeError")
    ELSE IF x.w # <<>> \/ y.w # <<>> THEN WideOp(op, x, y, pos)
    ELSE IF op = "+" THEN Value(pos, Num(ResultType(x, y), x.n * y.d + y.n * x.d, x.d * y.d))
    ELSE IF op = "-" THEN Value(pos, Num(ResultType(x, y), x.n * y.d - y.n * x.d, x.d * y.d))
    ELSE IF op = "*" THEN Value(pos, Num(ResultType(x, y), x.n * y.n, x.d * y.d))
    ELSE IF op = "/" THEN
        IF y.n = 0 THEN Raised(pos, "ZeroDivisionError")
        ELSE Value(pos, Num("float", x.n * y.d, x.d * y.n))
    ELSE IF op = "//" THEN
        IF y.n = 0 THEN Raised(pos, "ZeroDivisionError")
        ELSE Value(pos, Num(ResultType(x, y), FloorDiv(x.n * y.d, x.d * y.n), 1))
    ELSE \* op = "**"
        IF y.d # 1 THEN Raised(pos, "UnmodelledPower")
        ELSE IF y.n >= 0
             THEN Value(pos, Num(ResultType(x, y), Pow(x.n, y.n), Pow(x.d, y.n)))
        ELSE IF x.n = 0 THEN Raised(pos, "ZeroDivisionError")
        ELSE Value(pos, Num("float", Pow(x.d, -y.n), Pow(x.n, -y.n)))

\* left-to-right evaluation: the left operand's exception comes first
Combine(op, L, R) ==
    IF L.rt # "" THEN Raised(R.pos, L.rt)
    ELSE IF R.rt # "" THEN Raised(R.pos, R.rt)
    ELSE BinaryOp(op, L.v, R.v, R.pos)

UnaryOp(op, R) ==
    IF R.rt # "" THEN R
    ELSE IF R.v.t = "tuple" THEN Raised(R.pos, "TypeError")
    ELSE IF op = "-" THEN Value(R.pos, [R.v EXCEPT !.n = -R.v.n])
    ELSE R

\* calling a number or a tuple: callee, then argument, then the TypeError
CallOp(F, A, pos) ==
    IF F.rt # "" THEN Raised(pos, F.rt)
    ELSE IF A.rt # "" THEN Raised(pos, A.rt)
    ELSE Raised(pos, "TypeError")

TokIs(toks, p, ops) == p <= Len(toks) /\ toks[p].s \in ops

RECURSIVE PyExpr(_, _), PyArithRest(_, _), PyTerm(_, _), PyTermRest(_, _),
          PyFactor(_, _), PyPower(_, _), PyTrailers(_, _), PyAtom(_, _)

\* arith_expr: term (('+'|'-') term)*
PyExpr(toks, p) == Bind(PyTerm(toks, p), LAMBDA L : PyArithRest(toks, L))

PyArithRest(toks, L) ==
    IF ~L.syn \/ ~TokIs(toks, L.pos, {"+", "-"}) THEN L
    ELSE Bind(PyTerm(toks, L.pos + 1), LAMBDA R :
             IF ~R.syn THEN SyntaxErr
             ELSE Bind(Combine(toks[L.pos].s, L, R), LAMBDA V :
                      PyArithRest(toks, V)))

\* term: factor (('*'|'/'|'//') factor)*
PyTerm(toks, p) == Bind(PyFactor(toks, p), LAMBDA L : PyTermRest(toks, L))

PyTermRest(toks, L) ==
    IF ~L.syn \/ ~TokIs(toks, L.pos, {"*", "/", "//"}) THEN L
    ELSE Bind(PyFactor(toks, L.pos + 1), LAMBDA R :
             IF ~R.syn THEN SyntaxErr
             ELSE Bind(Combine(toks[L.pos].s, L, R), LAMBDA V :
                      PyTermRest(toks, V)))

\* factor: ('+'|'-') factor | power
PyFactor(toks, p) ==
    IF TokIs(toks, p, {"+", "-"})
    THEN Bind(PyFactor(toks, p + 1), LAMBDA R :
             IF ~R.syn THEN SyntaxErr ELSE UnaryOp(toks[p].s, R))
    ELSE PyPower(toks, p)

\* power: primary ['**' factor]
PyPower(toks, p) ==
    Bind(PyAtom(toks, p), LAMBDA A :
    Bind(PyTrailers(toks, A), LAMBDA L :
        IF ~L.syn \/ ~TokIs(toks, L.pos, {"**"}) THEN L
        ELSE Bind(PyFactor(toks, L.pos + 1), LAMBDA R :
                 IF ~R.syn THEN SyntaxErr ELSE Combine("**", L, R))))

\* primary: atom ('(' [['*'|'**'] expr] ')')*
PyTrailers(toks, F) ==
    IF ~F.syn \/ ~TokIs(toks, F.pos, {"("}) THEN F
    ELSE IF TokIs(toks, F.pos + 1, {")"})
         THEN Bind(CallOp(F, Value(0, EmptyTuple), F.pos + 2), LAMBDA V :
                  PyTrailers(toks, V))
    ELSE Bind(IF TokIs(toks, F.pos + 1, {"*", "**"}) THEN F.pos + 2 ELSE F.pos + 1,
              LAMBDA a :
         Bind(PyExpr(toks, a), LAMBDA A :
             IF ~A.syn \/ ~TokIs(toks, A.pos, {")"}) THEN SyntaxErr
             ELSE Bind(CallOp(F, A, A.pos + 1), LAMBDA V : PyTrailers(toks, V))))

\* atom: NUMBER | '(' ')' | '(' expr ')'
PyAtom(toks, p) ==
    IF TokIs(toks, p, {"num"}) THEN Value(p + 1, toks[p].n)
    ELSE IF ~TokIs(toks, p, {"("}) THEN SyntaxErr
    ELSE IF TokIs(toks, p + 1, {")"}) THEN Value(p + 2, EmptyTuple)
    ELSE Bind(PyExpr(toks, p + 1), LAMBDA E :
             IF ~E.syn \/ ~TokIs(toks, E.pos, {")"}) THEN SyntaxErr
             ELSE [E EXCEPT !.pos = @ + 1])

\* eval(s): [exc, v], exc = "" when the expression has the value v
PyEval(s) ==
    IF \E i \in DOMAIN s : s[i] \notin PyAlphabet
    THEN [exc |-> "UnmodelledCharacter", v |-> NoNum]
    ELSE Bind(PyTokens(s, 1), LAMBDA toks :
         Bind(PyExpr(toks, 1), LAMBDA E :
             IF ~E.syn \/ E.pos # Len(toks) + 1
             THEN [exc |-> "SyntaxError", v |-> NoNum]
             ELSE [exc |-> E.rt, v |-> E.v]))

----------------------------------------------------------------------------
(* evaluate_expression                                                     *)

\* end of the maximal run of '-' starting at i
RECURSIVE MinusRunEnd(_, _)
MinusRunEnd(s, i) ==
    IF i < Len(s) /\ s[i + 1] = "-" THEN MinusRunEnd(s, i + 1) ELSE i

\* re.sub(r'-{2,}', '-', s) from position i
RECURSIVE SubMinusRuns(_, _)
SubMinusRuns(s, i) ==
    IF i > Len(s) THEN <<>>
    ELSE IF s[i] = "-"
         THEN Bind(MinusRunEnd(s, i), LAMBDA j : <<"-">> \o SubMinusRuns(s, j + 1))
    ELSE <<s[i]>> \o SubMinusRuns(s, i + 1)

\* re.sub(r'\+-', '-', s) from position i
RECURSIVE SubPlusMinus(_, _)
SubPlusMinus(s, i) ==
    IF i > Len(s) THEN <<>>
    ELSE IF s[i] = "+" /\ i < Len(s) /\ s[i + 1] = "-"
         THEN <<"-">> \o SubPlusMinus(s, i + 2)
    ELSE <<s[i]>> \o SubPlusMinus(s, i + 1)

\* the two re.sub calls made on dec_expr before eval
CollapseSigns(dec_expr) ==
    Bind(SubMinusRuns(dec_expr, 1), LAMBDA e : SubPlusMinus(e, 1))

\* evaluate_expression(expr, base) on a model with caches tc, fc, cc:
\* the outcome and the caches the call leaves
evaluate_expression(tc, fc, cc, expr, base) ==
    Bind(convert_to_decimal(tc, cc, expr, base), LAMBDA c :
    IF ~c.res.ok THEN [res |-> c.res, tc |-> c.tc, fc |-> fc, cc |-> c.cc]
    ELSE
    Bind(CollapseSigns(c.res.str), LAMBDA dec_expr :
    Bind(PyEval(dec_expr), LAMBDA e :
    IF e.exc = "ZeroDivisionError"
    THEN [res |-> Raise("Division by zero"), tc |-> c.tc, fc |-> fc, cc |-> c.cc]
    ELSE IF e.exc # ""
    THEN [res |-> RaiseFrom("Error evaluating expression", e.exc),
          tc |-> c.tc, fc |-> fc, cc |-> c.cc]
    ELSE IF ~IsNumeric(e.v)
    THEN [res |-> RaiseFrom("Error evaluating expression",
                            "Expression resulted in a non-numeric value"),
          tc |-> c.tc, fc |-> fc, cc |-> c.cc]
    ELSE
    Bind(from_decimal(fc, e.v, base), LAMBDA f :
    IF ~f.res.ok
    THEN [res |-> RaiseFrom("Error evaluating expression", f.res.err),
          tc |-> c.tc, fc |-> f.fc, cc |-> c.cc]
    ELSE [res |-> f.res, tc |-> c.tc, fc |-> f.fc, cc |-> c.cc]))))

----------------------------------------------------------------------------
(* The wire (src/Server.py, src/Client.py): a byte is a number in 0..255,  *)
(* a text a sequence of one-character strings, a message a 4-byte          *)
(* big-endian length followed by that many bytes of JSON text.             *)

\* the printable ASCII characters, in code order from 32 ("grave" stands
\* for the grave accent, code 96)
AsciiChars ==
    <<" ", "!", "\"", "#", "$", "%", "&", "'", "(", ")", "*", "+", ",", "-",
      ".", "/", "0", "1", "2", "3", "4", "5", "6", "7", "8", "9", ":", ";",
      "<", "=", ">", "?", "@", "A", "B", "C", "D", "E", "F", "G", "H", "I",
      "J", "K", "L", "M", "N", "O", "P", "Q", "R", "S", "T", "U", "V", "W",
      "X", "Y", "Z", "[", "\\", "]", "^", "_", "grave", "a", "b", "c", "d", "e",
      "f", "g", "h", "i", "j", "k", "l", "m", "n", "o", "p", "q", "r", "s",
      "t", "u", "v", "w", "x", "y", "z", "{", "|", "}", "~">>

Ord(ch) == 31 + (CHOOSE i \in 1..Len(AsciiChars) : AsciiChars[i] = ch)

\* "control" stands for every character that is not printable ASCII
Chr(b) == IF b \in 32..126 THEN AsciiChars[b - 31] ELSE "control"

\* str.encode() of an ASCII text
encode(text) == [i \in 1..Len(text) |-> Ord(text[i])]

\* the bytes that occur in no UTF-8 text
NeverUtf8 == {192, 193} \cup (245..255)

\* bytes.decode(): the text, or UnicodeDecodeError (the peers of the model
\* send ASCII and the byte 0xFF only)
decode(data) ==
    IF \E i \in 1..Len(data) : data[i] \in NeverUtf8
    THEN [ok |-> FALSE, text |-> <<>>]
    ELSE [ok |-> TRUE, text |-> [i \in 1..Len(data) |-> Chr(data[i])]]

\* len(data).to_bytes(4, byteorder='big')
to_bytes(n) ==
    <<(n \div 16777216) % 256, (n \div 65536) % 256, (n \div 256) % 256, n % 256>>

\* int.from_bytes(size_data, byteorder='big'); the values from 2^31 on are
\* all represented by 2^31 - 1 (handle_client compares them with 1024 * 1024)
from_bytes(b) ==
    IF b[1] > 127 THEN 2147483647
    ELSE ((b[1] * 256 + b[2]) * 256 + b[3]) * 256 + b[4]

\* size_prefix + data, as both sides send it
Frame(data) == to_bytes(Len(data)) \o data

\* JSON values: a dict is [t |-> "dict", items |-> <<<<key, value>>, ...>>]
\* with texts for keys and values, the empty list is [t |-> "list"]
Dict(items) == [t |-> "dict", items |-> items]

EmptyList == [t |-> "list", items |-> <<>>]

HasKey(d, key) == \E i \in 1..Len(d.items) : d.items[i][1] = key

Get(d, key) == d.items[CHOOSE i \in 1..Len(d.items) : d.items[i][1] = key][2]

Quoted(text) == <<"\"">> \o text \o <<"\"">>

RECURSIVE JoinItems(_, _)
JoinItems(items, i) ==
    IF i > Len(items) THEN <<>>
    ELSE (IF i > 1 THEN <<",", " ">> ELSE <<>>)
         \o Quoted(items[i][1]) \o <<":", " ">> \o Quoted(items[i][2])
         \o JoinItems(items, i + 1)

\* json.dumps(value); the texts of the model hold no character to escape
json_dumps(value) ==
    IF value.t = "list" THEN <<"[", "]">>
    ELSE <<"{">> \o JoinItems(value.items, 1) \o <<"}">>

\* the requests MathClient.send_request is given
CalcRequest(expr, base) ==
    Dict(<< <<<<"t", "y", "p", "e">>, <<"c", "a", "l", "c", "u", "l", "a",
                                        "t", "e">>>>,
            <<<<"e", "x", "p", "r">>, expr>>,
            <<<<"b", "a", "s", "e">>, base>> >>)

Requests ==
    { CalcRequest(<<"1", "+", "1">>, <<"D", "E", "C">>),
      CalcRequest(<<"1", "+">>, <<"D", "E", "C">>),
      Dict(<< <<<<"t", "y", "p", "e">>, <<"x">>>> >>) }

\* the JSON values a peer puts on the wire
JsonValues == Requests \cup {EmptyList}

\* json.loads(text): the value whose JSON text this is, or JSONDecodeError
json_loads(text) ==
    IF \E v \in JsonValues : json_dumps(v) = text
    THEN [ok |-> TRUE, value |-> CHOOSE v \in JsonValues : json_dumps(v) = text]
    ELSE [ok |-> FALSE, value |-> EmptyList]

----------------------------------------------------------------------------
(* MathServer.process_request                                              *)

\* the base named by a request's "base" text
BaseText(base) ==
    CASE base = "BIN" -> <<"B", "I", "N">>
      [] base = "OCT" -> <<"O", "C", "T">>
      [] base = "DEC" -> <<"D", "E", "C">>
      [] base = "HEX" -> <<"H", "E", "X">>

BaseName(text) ==
    IF \E b \in Bases : BaseText(b) = text
    THEN CHOOSE b \in Bases : BaseText(b) = text
    ELSE "?"

\* str(e) of the ValueError evaluate_expression raised
ErrorText(res) ==
    IF res.err = "Division by zero" THEN <<"D", "i", "v", "i", "s", "i",
                                           "o", "n", " ", "b", "y", " ",
                                           "z", "e", "r", "o">>
    ELSE IF res.cause = "SyntaxError"
    THEN <<"E", "r", "r", "o", "r", " ", "e", "v", "a", "l", "u", "a", "t",
           "i", "n", "g", " ", "e", "x", "p", "r", "e", "s", "s", "i", "o",
           "n", ":", " ", "i", "n", "v", "a", "l", "i", "d", " ", "s", "y",
           "n", "t", "a", "x", " ", "(", "<", "s", "t", "r", "i", "n", "g",
           ">", ",", " ", "l", "i", "n", "e", " ", "1", ")">>
    ELSE <<"E", "r", "r", "o", "r", " ", "e", "v", "a", "l", "u", "a", "t",
           "i", "n", "g", " ", "e", "x", "p", "r", "e", "s", "s", "i", "o",
           "n">>

ErrorResponse(text) == Dict(<< <<<<"e", "r", "r", "o", "r">>, text>> >>)

IsErrorResponse(response) == HasKey(response, <<"e", "r", "r", "o", "r">>)

\* CalculatorModel.serialize_calculation
serialize_calculation(expr, base, result) ==
    Dict(<< <<<<"t", "y", "p", "e">>, <<"c", "a", "l", "c", "u", "l", "a",
                                        "t", "i", "o", "n">>>>,
            <<<<"e", "x", "p", "r">>, expr>>,
            <<<<"b", "a", "s", "e">>, base>>,
            <<<<"r", "e", "s", "u", "l", "t">>, result>> >>)

\* the request types handed to the solver, plotter and matrix models
OtherModelTypes ==
    { <<"s", "o", "l", "v", "e">>, <<"p", "l", "o", "t">>, <<"m", "a", "t",
                                                             "r", "i", "x",
                                                             "_", "a", "d",
                                                             "d">>, <<
                                                                                                                                                                                                                                                                                                          "m",
                                                                                                                                                                                                                                                                                                          "a",
                                                                                                                                                                                                                                                                                                          "t",
                                                                                                                                                                                                                                                                                                          "r",
                                                                                                                                                                                                                                                                                                          "i",
                                                                                                                                                                                                                                                                                                          "x",
                                                                                                                                                                                                                                                                                                          "_",
                                                                                                                                                                                                                                                                                                          "s",
                                                                                                                                                                                                                                                                                                          "u",
                                                                                                                                                                                                                                                                                                          "b",
                                                                                                                                                                                                                                                                                                          "t",
                                                                                                                                                                                                                                                                                                          "r",
                                                                                                                                                                                                                                                                                                          "a",
                                                                                                                                                                                                                                                                                                          "c",
                                                                                                                                                                                                                                                                                                          "t">>,
      <<"m", "a", "t", "r", "i", "x", "_", "m", "u", "l", "t", "i", "p",
        "l", "y">> }

Returned(response, tc, fc, cc) ==
    [raised |-> FALSE, msg |-> <<>>, response |-> response,
     tc |-> tc, fc |-> fc, cc |-> cc]

\* process_request(request) on a server whose calculator has caches tc, fc,
\* cc: the response, or the exception that escapes (request.get in the
\* except clause fails on a request that is not a dict)
process_request(tc, fc, cc, request) ==
    IF request.t # "dict"
    THEN [raised |-> TRUE, msg |-> <<"'", "l", "i", "s", "t", "'", " ",
                                     "o", "b", "j", "e", "c", "t", " ",
                                     "h", "a", "s", " ", "n", "o", " ",
                                     "a", "t", "t", "r", "i", "b", "u",
                                     "t", "e", " ", "'", "g", "e", "t", "'">>,
          response |-> EmptyList, tc |-> tc, fc |-> fc, cc |-> cc]
    ELSE IF ~HasKey(request, <<"t", "y", "p", "e">>)
    THEN Returned(ErrorResponse(<<"'", "t", "y", "p", "e", "'">>), tc, fc, cc)
    ELSE IF Get(request, <<"t", "y", "p", "e">>) = <<"c", "a", "l", "c",
                                                     "u", "l", "a", "t", "e">>
    THEN IF ~HasKey(request, <<"e", "x", "p", "r">>)
         THEN Returned(ErrorResponse(<<"'", "e", "x", "p", "r", "'">>), tc, fc, cc)
         ELSE IF ~HasKey(request, <<"b", "a", "s", "e">>)
         THEN Returned(ErrorResponse(<<"'", "b", "a", "s", "e", "'">>), tc, fc, cc)
         ELSE
         Bind(evaluate_expression(tc, fc, cc, Get(request, <<"e", "x", "p",
                                                             "r">>),
                                  BaseName(Get(request, <<"b", "a", "s", "e">>))), LAMBDA r :
         IF r.res.ok
         THEN Returned(serialize_calculation(Get(request, <<"e", "x", "p",
                                                            "r">>),
                                             Get(request, <<"b", "a", "s",
                                                            "e">>), r.res.str),
                       r.tc, r.fc, r.cc)
         ELSE Returned(ErrorResponse(ErrorText(r.res)), r.tc, r.fc, r.cc))
    ELSE IF Get(request, <<"t", "y", "p", "e">>) \in OtherModelTypes
    THEN Returned(Dict(<< <<<<"t", "y", "p", "e">>, Get(request, <<"t",
                                                                   "y",
                                                                   "p", "e">>)>> >>), tc, fc, cc)
    ELSE Returned(ErrorResponse(<<"I", "n", "v", "a", "l", "i", "d", " ",
                                  "r", "e", "q", "u", "e", "s", "t", " ",
                                  "t", "y", "p", "e">>), tc, fc, cc)

----------------------------------------------------------------------------
(* MathServer: the accept loop of run() and one handle_client thread per   *)
(* accepted connection (no SSL context, server running)                    *)

\* connections made to the server in one behaviour
MaxConns == 2

Conns == 1..MaxConns

\* frames a peer sends on one connection
MaxFrames == 2

\* a recv may return a single byte while fewer than this many bytes of the
\* read are in; after that it returns all that is asked for and available
MaxShortRead == 1

\* MathServer(max_connections=...)
max_connections == 1

\* the largest message_size handle_client accepts
max_message_size == 1024 * 1024

\* a handle_client thread: pc is
\*   "none"      no connection yet        "pending"   connected, not accepted
\*   "start"     thread started           "inc"       active_connections read
\*   "recv_size" in _recv_all(sock, 4)    "recv_data" in _recv_all(sock, size)
\*   "close"     left the loop            "dec"       active_connections read
\*   "done"      thread finished
\* tmp is the value of active_connections the thread read, n and data are
\* _recv_all's, timedout says the thread is in _recv_all's except clause;
\* mid, why, reads and replies record what happened: a timeout since the
\* frame being read began, the break that left the loop, the payloads
\* handed to json.loads, the responses sent
NoHandler ==
    [pc |-> "none", tmp |-> 0, n |-> 0, data |-> <<>>, timedout |-> FALSE,
     mid |-> FALSE, why |-> "", reads |-> <<>>, replies |-> <<>>]

\* run(): accept() returns a connection, a thread is created and started
\* and "while self.running" is tested again
Accept(c) ==
    /\ accepting
    /\ handler[c].pc = "pending"
    /\ handler' = [handler EXCEPT ![c].pc = "start"]
    /\ accepting' = running
    /\ UNCHANGED <<active_connections, client, c2s, s2c, running>>
    /\ UNCHANGED <<calc_vars, util_vars>>

\* stop(): self.running = False (the connection stop() makes to wake
\* accept() is not among the connections of the model)
Stop ==
    /\ running
    /\ running' = FALSE
    /\ UNCHANGED <<active_connections, handler, client, c2s, s2c, accepting>>
    /\ UNCHANGED <<calc_vars, util_vars>>

\* run(): accept() times out or fails on the closed server socket, and
\* "while self.running" ends the loop
RunExit ==
    /\ accepting
    /\ ~running
    /\ accepting' = FALSE
    /\ UNCHANGED <<active_connections, handler, client, c2s, s2c, running>>
    /\ UNCHANGED <<calc_vars, util_vars>>

\* "while self.running" in handle_client: into _recv_all(client_socket, 4),
\* or out of the loop
LoopTest == IF running THEN "recv_size" ELSE "close"

\* self.active_connections += 1: the read
HandlerIncLoad(c) ==
    /\ handler[c].pc = "start"
    /\ handler' = [handler EXCEPT ![c].pc = "inc", ![c].tmp = active_connections]
    /\ UNCHANGED <<active_connections, client, c2s, s2c>>
    /\ UNCHANGED <<calc_vars, util_vars>>
    /\ UNCHANGED <<running, accepting>>

\* self.active_connections += 1: the write; then settimeout and the first
\* _recv_all(client_socket, 4)
HandlerIncStore(c) ==
    /\ handler[c].pc = "inc"
    /\ active_connections' = handler[c].tmp + 1
    /\ handler' = [handler EXCEPT ![c].pc = LoopTest, ![c].n = 4,
                                  ![c].data = <<>>,
                                  ![c].why = IF running THEN @ ELSE "stopped"]
    /\ UNCHANGED <<client, c2s, s2c>>
    /\ UNCHANGED <<calc_vars, util_vars>>
    /\ UNCHANGED <<running, accepting>>

\* n - len(data), the number of bytes _recv_all asks recv for
Want_n(n, have) == n

Want(n, have) == n - have

\* the sizes of the packet recv(want) may return when avail bytes have arrived
PacketSizes(want, have, avail) ==
    {IF want < avail THEN want ELSE avail}
        \cup (IF have < MaxShortRead THEN {1} ELSE {})

\* the record of a response sent
Reply(response) ==
    [error |-> IsErrorResponse(response), payload |-> encode(json_dumps(response))]

\* send_error_response / sendall of a response: nothing reaches a peer that
\* has closed
SendFrame(c, response) ==
    IF client[c].fin THEN s2c
    ELSE [s2c EXCEPT ![c] = @ \o Frame(encode(json_dumps(response)))]

\* "if message_size > 1024 * 1024"
TooLarge_geq(message_size) == message_size >= max_message_size

TooLarge(message_size) == message_size > max_message_size

\* the header is in: message_size is checked, then _recv_all(sock, size)
HeaderDone(c, size_data) ==
    /\ UNCHANGED <<active_connections, client>>
    /\ UNCHANGED <<calc_vars, util_vars>>
    /\ UNCHANGED <<running, accepting>>
    /\ IF TooLarge(from_bytes(size_data))
       THEN /\ handler' = [handler EXCEPT ![c].pc = "close", ![c].why = "size",
                                          ![c].data = <<>>,
                                          ![c].replies = Append(@,
                                              Reply(ErrorResponse(<<"M",
                                                                    "e",
                                                                    "s",
                                                                    "s",
                                                                    "a",
                                                                    "g",
                                                                    "e",
                                                                    " ",
                                                                    "s",
                                                                    "i",
                                                                    "z",
                                                                    "e",
                                                                    " ",
                                                                    "t",
                                                                    "o",
                                                                    "o",
                                                                    " ",
                                                                    "l",
                                                                    "a",
                                                                    "r",
                                                                    "g", "e">>)))]
            /\ s2c' = SendFrame(c, ErrorResponse(<<"M", "e", "s", "s", "a",
                                                   "g", "e", " ", "s", "i",
                                                   "z", "e", " ", "t", "o",
                                                   "o", " ", "l", "a", "r",
                                                   "g", "e">>))
       ELSE IF from_bytes(size_data) = 0
       THEN /\ handler' = [handler EXCEPT ![c].pc = "close", ![c].why = "empty",
                                          ![c].data = <<>>]
            /\ UNCHANGED s2c
       ELSE /\ handler' = [handler EXCEPT ![c].pc = "recv_data",
                                          ![c].n = from_bytes(size_data),
                                          ![c].data = <<>>]
            /\ UNCHANGED s2c

\* the thread goes back to _recv_all(client_socket, 4) having read payload
\* data and sent response
NextRequest(c, data, response) ==
    [handler EXCEPT ![c].pc = LoopTest, ![c].n = 4, ![c].data = <<>>,
                    ![c].why = IF running THEN @ ELSE "stopped",
                    ![c].mid = FALSE,
                    ![c].reads = Append(@, [payload |-> data, mid |-> handler[c].mid]),
                    ![c].replies = Append(@, Reply(response))]

\* the thread leaves the loop by the break of "except Exception", having
\* read payload data and sent the error response
BreakOnError(c, data, response) ==
    [handler EXCEPT ![c].pc = "close", ![c].why = "request", ![c].data = <<>>,
                    ![c].mid = FALSE,
                    ![c].reads = Append(@, [payload |-> data, mid |-> handler[c].mid]),
                    ![c].replies = Append(@, Reply(response))]

\* str(e) of the UnicodeDecodeError data.decode() raises
UnicodeDecodeErrorText ==
    <<"'", "u", "t", "f", "-", "8", "'", " ", "c", "o", "d", "e", "c", " ",
      "c", "a", "n", "'", "t", " ", "d", "e", "c", "o", "d", "e", " ", "b",
      "y", "t", "e", " ", "0", "x", "f", "f", " ", "i", "n", " ", "p", "o",
      "s", "i", "t", "i", "o", "n", " ", "0", ":", " ", "i", "n", "v", "a",
      "l", "i", "d", " ", "s", "t", "a", "r", "t", " ", "b", "y", "t", "e">>

\* the payload is in: json.loads(data.decode()), process_request, sendall
PayloadDone(c, data) ==
    /\ UNCHANGED <<active_connections, client>>
    /\ UNCHANGED <<last, ncalls>>
    /\ UNCHANGED util_vars
    /\ UNCHANGED <<running, accepting>>
    /\ IF ~decode(data).ok
       THEN /\ handler' = BreakOnError(c, data, ErrorResponse(UnicodeDecodeErrorText))
            /\ s2c' = SendFrame(c, ErrorResponse(UnicodeDecodeErrorText))
            /\ UNCHANGED <<to_cache, from_cache, conv_cache>>
       ELSE IF ~json_loads(decode(data).text).ok
       THEN /\ handler' = NextRequest(c, data, ErrorResponse(<<"I", "n",
                                                               "v", "a",
                                                               "l", "i",
                                                               "d", " ",
                                                               "r", "e",
                                                               "q", "u",
                                                               "e", "s",
                                                               "t", " ",
                                                               "f", "o",
                                                               "r", "m",
                                                               "a", "t">>))
            /\ s2c' = SendFrame(c, ErrorResponse(<<"I", "n", "v", "a", "l",
                                                   "i", "d", " ", "r", "e",
                                                   "q", "u", "e", "s", "t",
                                                   " ", "f", "o", "r", "m",
                                                   "a", "t">>))
            /\ UNCHANGED <<to_cache, from_cache, conv_cache>>
       ELSE \E r \in {process_request(to_cache, from_cache, conv_cache,
                                      json_loads(decode(data).text).value)} :
            /\ to_cache' = r.tc
            /\ from_cache' = r.fc
            /\ conv_cache' = r.cc
            /\ IF r.raised
               THEN /\ handler' = BreakOnError(c, data, ErrorResponse(r.msg))
                    /\ s2c' = SendFrame(c, ErrorResponse(r.msg))
               ELSE /\ handler' = NextRequest(c, data, r.response)
                    /\ s2c' = SendFrame(c, r.response)

\* _recv_all: recv returns a packet; when data is complete the thread goes
\* on to the next blocking call
HandlerRecv(c) ==
    /\ handler[c].pc \in {"recv_size", "recv_data"}
    /\ ~handler[c].timedout
    /\ c2s[c] # <<>>
    /\ \E k \in PacketSizes(Want(handler[c].n, Len(handler[c].data)),
                            Len(handler[c].data), Len(c2s[c])) :
          \E data \in {handler[c].data \o SubSeq(c2s[c], 1, k)} :
             /\ c2s' = [c2s EXCEPT ![c] = SubSeq(@, k + 1, Len(@))]
             /\ IF Len(data) < handler[c].n
                THEN /\ handler' = [handler EXCEPT ![c].data = data]
                     /\ UNCHANGED <<active_connections, client, s2c>>
                     /\ UNCHANGED <<calc_vars, util_vars>>
                     /\ UNCHANGED <<running, accepting>>
                ELSE IF handler[c].pc = "recv_size"
                THEN HeaderDone(c, data)
                ELSE PayloadDone(c, data)

\* _recv_all: recv raises socket.timeout
HandlerTimeout(c) ==
    /\ handler[c].pc \in {"recv_size", "recv_data"}
    /\ ~handler[c].timedout
    /\ handler' = [handler EXCEPT ![c].timedout = TRUE,
                                  ![c].mid = @ \/ handler[c].pc = "recv_data"
                                               \/ handler[c].data # <<>>]
    /\ UNCHANGED <<active_connections, client, c2s, s2c>>
    /\ UNCHANGED <<calc_vars, util_vars>>
    /\ UNCHANGED <<running, accepting>>

\* _recv_all: "except socket.timeout: continue", back to recv with data kept
HandlerContinue(c) ==
    /\ handler[c].timedout
    /\ handler' = [handler EXCEPT ![c].timedout = FALSE]
    /\ UNCHANGED <<active_connections, client, c2s, s2c>>
    /\ UNCHANGED <<calc_vars, util_vars>>
    /\ UNCHANGED <<running, accepting>>

\* _recv_all: recv returns b'' because the peer has closed; None is returned
\* and the loop is left
HandlerEOF(c) ==
    /\ handler[c].pc \in {"recv_size", "recv_data"}
    /\ ~handler[c].timedout
    /\ c2s[c] = <<>>
    /\ client[c].fin
    /\ handler' = [handler EXCEPT ![c].pc = "close", ![c].why = "eof",
                                  ![c].data = <<>>]
    /\ UNCHANGED <<active_connections, client, c2s, s2c>>
    /\ UNCHANGED <<calc_vars, util_vars>>
    /\ UNCHANGED <<running, accepting>>

\* client_socket.close(), then self.active_connections -= 1: the read
HandlerDecLoad(c) ==
    /\ handler[c].pc = "close"
    /\ handler' = [handler EXCEPT ![c].pc = "dec", ![c].tmp = active_connections]
    /\ UNCHANGED <<active_connections, client, c2s, s2c>>
    /\ UNCHANGED <<calc_vars, util_vars>>
    /\ UNCHANGED <<running, accepting>>

\* self.active_connections -= 1: the write; the thread ends
HandlerDecStore(c) ==
    /\ handler[c].pc = "dec"
    /\ active_connections' = handler[c].tmp - 1
    /\ handler' = [handler EXCEPT ![c].pc = "done"]
    /\ UNCHANGED <<client, c2s, s2c>>
    /\ UNCHANGED <<calc_vars, util_vars>>
    /\ UNCHANGED <<running, accepting>>

\* the server has closed its end of the connection
ServerClosed(c) == handler[c].pc \in {"dec", "done"}

----------------------------------------------------------------------------
(* MathClient (src/Client.py), and peers that write other bytes            *)

\* MathClient.max_retries
max_retries == 3

\* a peer: pc is
\*   "new"        constructed             "connecting" in connect()'s loop
\*   "ready"      connected, no call on   "raised"     connect() raised
\*   "recv_size"  send_request, in _recv_all(4)
\*   "recv_data"  send_request, in _recv_all(response_size)
\*   "closed"     after close()
\* sock is client_socket ("none" for None, "unconnected" for a socket whose
\* connect failed), retries is connect()'s, n and data are _recv_all's;
\* fin says the peer has closed its end; attempts, sleeps, sent, got and
\* answered and outcome record what happened: the connect calls made on
\* sockets, the time.sleep calls, the frames sent, the response payloads
\* returned, the number of the request each was returned for, how the last
\* send_request ended
NewClient ==
    [pc |-> "new", sock |-> "none", retries |-> 0, n |-> 0, data |-> <<>>,
     fin |-> FALSE, attempts |-> 0, sleeps |-> 0,
     sent |-> <<>>, got |-> <<>>, answered |-> <<>>, outcome |-> ""]

\* connect() is called: retries = 0
Connect(c) ==
    /\ client[c].pc = "new"
    /\ client' = [client EXCEPT ![c].pc = "connecting", ![c].retries = 0]
    /\ UNCHANGED <<active_connections, handler, c2s, s2c>>
    /\ UNCHANGED <<calc_vars, util_vars>>
    /\ UNCHANGED <<running, accepting>>

\* "if retries < self.max_retries" before time.sleep(self.retry_delay)
SleepsAfter_always(retries) == TRUE

SleepsAfter(retries) == retries < max_retries

\* one turn of connect()'s loop: the attempt succeeds and connect returns,
\* or it fails (timeout, refusal, other error), retries is incremented, the
\* client sleeps if attempts are left, and close() is called; close() leaves
\* client_socket set, for shutdown raises on a socket that is not connected
ConnectAttempt(c) ==
    /\ client[c].pc = "connecting"
    /\ client[c].retries < max_retries
    /\ \/ /\ client' = [client EXCEPT ![c].pc = "ready", ![c].sock = "connected",
                                      ![c].attempts = @ + 1]
          /\ handler' = [handler EXCEPT ![c].pc = "pending"]
       \/ /\ client' = [client EXCEPT
                 ![c].sock = "unconnected",
                 ![c].attempts = @ + 1,
                 ![c].retries = @ + 1,
                 ![c].sleeps = IF SleepsAfter(client[c].retries + 1) THEN @ + 1 ELSE @,
                 ![c].pc = IF client[c].retries + 1 < max_retries
                           THEN "connecting" ELSE "raised"]
          /\ UNCHANGED handler
    /\ UNCHANGED <<active_connections, c2s, s2c>>
    /\ UNCHANGED <<calc_vars, util_vars>>
    /\ UNCHANGED <<running, accepting>>

\* send_request(request): sendall(size_prefix + request_data), then
\* _recv_all(4)
SendRequest(c) ==
    /\ client[c].pc = "ready"
    /\ Len(client[c].sent) < MaxFrames
    /\ \E request \in Requests :
          \E data \in {encode(json_dumps(request))} :
             /\ c2s' = [c2s EXCEPT ![c] = @ \o Frame(data)]
             /\ client' = [client EXCEPT
                    ![c].pc = "recv_size", ![c].n = 4, ![c].data = <<>>,
                    ![c].outcome = "",
                    ![c].sent = Append(@, [size |-> Len(data), payload |-> data])]
    /\ UNCHANGED <<active_connections, handler, s2c>>
    /\ UNCHANGED <<calc_vars, util_vars>>
    /\ UNCHANGED <<running, accepting>>

\* what a peer writes on its socket otherwise than by send_request: frames
\* whose payload is not a JSON object (malformed, a list, not UTF-8, empty),
\* the header of a frame of more than max_message_size bytes, alone and with
\* the first byte of its payload, and the header of a frame of
\* max_message_size bytes
PeerFrames ==
    { [size |-> 1, payload |-> <<Ord("{")>>],
      [size |-> 2, payload |-> encode(json_dumps(EmptyList))],
      [size |-> 1, payload |-> <<255>>],
      [size |-> 0, payload |-> <<>>],
      [size |-> max_message_size + 1, payload |-> <<>>],
      [size |-> max_message_size + 1, payload |-> <<Ord("{")>>],
      [size |-> max_message_size, payload |-> <<>>] }

PeerSend(c) ==
    /\ client[c].pc = "ready"
    /\ Len(client[c].sent) < MaxFrames
    /\ \E f \in PeerFrames :
          /\ c2s' = [c2s EXCEPT ![c] = @ \o to_bytes(f.size) \o f.payload]
          /\ client' = [client EXCEPT ![c].sent = Append(@, f)]
    /\ UNCHANGED <<active_connections, handler, s2c>>
    /\ UNCHANGED <<calc_vars, util_vars>>
    /\ UNCHANGED <<running, accepting>>

\* close() where shutdown succeeds: close, client_socket = None
CloseSocket_kept(c, outcome) ==
    [client EXCEPT ![c].pc = "ready", ![c].data = <<>>, ![c].outcome = outcome]

CloseSocket(c, outcome) ==
    [client EXCEPT ![c].pc = "closed", ![c].sock = "none", ![c].fin = TRUE,
                   ![c].data = <<>>, ![c].outcome = outcome]

\* close() where shutdown raises (the connection has been reset): the
\* error is printed and client_socket stays set
CloseFails(c, outcome) ==
    [client EXCEPT ![c].pc = "closed", ![c].sock = "unconnected", ![c].fin = TRUE,
                   ![c].data = <<>>, ![c].outcome = outcome]

\* MathClient._recv_all: recv returns a packet; with the header in,
\* send_request reads the payload, with the payload in, it returns
ClientRecv(c) ==
    /\ client[c].pc \in {"recv_size", "recv_data"}
    /\ s2c[c] # <<>>
    /\ \E k \in PacketSizes(Want(client[c].n, Len(client[c].data)),
                            Len(client[c].data), Len(s2c[c])) :
          \E data \in {client[c].data \o SubSeq(s2c[c], 1, k)} :
             /\ s2c' = [s2c EXCEPT ![c] = SubSeq(@, k + 1, Len(@))]
             /\ client' =
                  IF Len(data) < client[c].n
                  THEN [client EXCEPT ![c].data = data]
                  ELSE IF client[c].pc = "recv_size"
                  THEN IF from_bytes(data) = 0
                       THEN CloseSocket(c, "ConnectionError")
                       ELSE [client EXCEPT ![c].pc = "recv_data",
                                           ![c].n = from_bytes(data),
                                           ![c].data = <<>>]
                  ELSE [client EXCEPT ![c].pc = "ready", ![c].data = <<>>,
                                      ![c].outcome = "returned",
                                      ![c].got = Append(@, data),
                                      ![c].answered = Append(@, Len(client[c].sent))]
    /\ UNCHANGED <<active_connections, handler, c2s>>
    /\ UNCHANGED <<calc_vars, util_vars>>
    /\ UNCHANGED <<running, accepting>>

\* MathClient._recv_all: recv raises socket.timeout, which send_request
\* answers with close() and TimeoutError
ClientTimeout(c) ==
    /\ client[c].pc \in {"recv_size", "recv_data"}
    /\ client' = CloseSocket(c, "TimeoutError")
    /\ UNCHANGED <<active_connections, handler, c2s, s2c>>
    /\ UNCHANGED <<calc_vars, util_vars>>
    /\ UNCHANGED <<running, accepting>>

\* MathClient._recv_all: recv returns b'' because the server has closed;
\* send_request raises ConnectionError after close(), whose shutdown
\* succeeds or, when the server has answered the request with a reset, fails
ClientEOF(c) ==
    /\ client[c].pc \in {"recv_size", "recv_data"}
    /\ s2c[c] = <<>>
    /\ ServerClosed(c)
    /\ \/ client' = CloseSocket(c, "ConnectionError")
       \/ client' = CloseFails(c, "ConnectionError")
    /\ UNCHANGED <<active_connections, handler, c2s, s2c>>
    /\ UNCHANGED <<calc_vars, util_vars>>
    /\ UNCHANGED <<running, accepting>>

\* close() is called on a connected client
ClientClose(c) ==
    /\ client[c].pc = "ready"
    /\ client' = CloseSocket(c, client[c].outcome)
    /\ UNCHANGED <<active_connections, handler, c2s, s2c>>
    /\ UNCHANGED <<calc_vars, util_vars>>
    /\ UNCHANGED <<running, accepting>>

\* send_request on a client whose client_socket is set but not connected
\* (connect() has raised, or close() has failed): no connect(), sendall
\* raises, close() fails again and the error is raised
SendRequestUnconnected(c) ==
    /\ client[c].pc \in {"raised", "closed"}
    /\ client[c].sock = "unconnected"
    /\ client[c].outcome # "OSError"
    /\ client' = [client EXCEPT ![c].outcome = "OSError"]
    /\ UNCHANGED <<active_connections, handler, c2s, s2c>>
    /\ UNCHANGED <<calc_vars, util_vars>>
    /\ UNCHANGED <<running, accepting>>

\* send_request on a client whose client_socket is None: connect() is
\* called, and the MathClient goes on as the peer of the next connection
Reconnect(c) ==
    /\ c > 1
    /\ client[c - 1].pc = "closed"
    /\ client[c - 1].sock = "none"
    /\ client[c].pc = "new"
    /\ client' = [client EXCEPT ![c].pc = "connecting", ![c].retries = 0]
    /\ UNCHANGED <<active_connections, handler, c2s, s2c>>
    /\ UNCHANGED <<calc_vars, util_vars>>
    /\ UNCHANGED <<running, accepting>>

----------------------------------------------------------------------------
(* The calculator as a state machine: one CalculatorModel, as the server   *)
(* holds it, receiving calls one after another                             *)

\* number of calls made on the model in one behaviour
MaxCalls == 2

\* numerals and operators of the two-operand expressions a op b
BinNumerals == {<<"0">>, <<"1">>, <<"1", "0">>}

BinaryOperators == {"+", "-", "*", "/"}

BinaryExprs == {<<a \o <<op>> \o b, "BIN">> : a \in BinNumerals, b \in BinNumerals,
                                              op \in BinaryOperators}

\* base_int ** max_display_digits - 1, the largest magnitude from_decimal
\* converts, and its numeral
max_value(base) == BigSub(BigPow(base_int(base), max_display_digits(base)), <<1>>)

LargestNumeral(base) ==
    [i \in 1..max_display_digits(base) |-> HexDigits[base_int(base)]]

\* the (expr, base) arguments of evaluate_expression
EvalInputs ==
    { <<<<"1", "+", "(", "5", "-", "3", "*", "9", ")", "+", "6", "*", "9">>, "DEC">>,
      <<<<"6", "6", "/", "2">>, "DEC">>,
      <<<<"3", "3">>, "DEC">>,
      <<<<"5", "-", "-", "3">>, "DEC">>,
      <<<<"5", "-", " ", "-", "3">>, "DEC">>,
      <<<<"5", "-", "-", "-", "3">>, "DEC">>,
      <<<<"5", "+", "-", "3">>, "DEC">>,
      <<<<"5", "+", "3">>, "DEC">>,
      <<<<"5", "-", "3">>, "DEC">>,
      <<<<"1", "+", "+", "1">>, "DEC">>,
      <<<<"1", "+", "1">>, "DEC">>,
      <<<<"1", " ", "+", " ", "1">>, "DEC">>,
      <<<<"4", "/", "2">>, "DEC">>,
      <<<<"1", "/", "2">>, "DEC">>,
      <<<<"6", "/", "0">>, "DEC">>,
      <<<<"(", ")">>, "DEC">>,
      <<<<"0", "1", "+", "1">>, "DEC">>,
      <<<<"2", "*", "*", "3">>, "DEC">>,
      <<<<"0", "1", "+", "1", "1", "0">>, "BIN">>,
      <<<<"1", "1", "1", "0", "/", "1", "0">>, "BIN">>,
      <<<<"1", "1", "1">>, "BIN">>,
      <<<<"1", " ", "-", " ", "0">>, "BIN">>,
      <<<<"1", " ", "-", "0">>, "BIN">>,
      <<<<"1", " ", "+", " ", "1">>, "BIN">>,
      <<<<"1", "2">>, "BIN">>,
      <<<<"-", "1", "+", "1", "0">>, "BIN">>,
      <<<<"-", "1", " ", "1">>, "BIN">>,
      <<<<"1", " ", "1">>, "BIN">>,
      <<<<"(", "1", ")", "(", "1", ")">>, "BIN">>,
      <<<<"1", "$", "1">>, "BIN">>,
      <<<<"A", "+", "1">>, "HEX">>,
      <<<<"a", "+", "1">>, "HEX">>,
      <<<<"1", "G">>, "HEX">>,
      <<<<"B">>, "HEX">>,
      <<<<"1", "6", "/", "2">>, "HEX">>,
      <<<<"1", "7">>, "OCT">>,
      <<<<"7", "/", "2">>, "OCT">>,
      <<<<"7", "+", "1">>, "OCT">>,
      <<<<"1", "/", "(", "1", "-", "1", ")">>, "BIN">>,
      <<<<"1", "/", "(", "1", "-", "1", "-", "0", ")">>, "BIN">>,
      <<LargestNumeral("HEX"), "HEX">>,
      <<LargestNumeral("HEX") \o <<"+", "1">>, "HEX">> }
    \cup BinaryExprs

\* the (expr, base) arguments of convert_to_decimal
ConvertInputs ==
    { <<<<"1", "-", "0">>, "BIN">>,
      <<<<"1", " ", "-", " ", "0">>, "BIN">>,
      <<<<"-", "1", " ", "1">>, "BIN">>,
      <<<<"(", "+", "1", " ", "1", ")">>, "BIN">>,
      <<<<"A", "+", "1">>, "HEX">>,
      <<<<"1", "G">>, "HEX">>,
      <<<<"1", "+", "+", "1">>, "DEC">> }

\* numerals of exactly max_display_digits characters and of one more
LongNumerals ==
    { <<[i \in 1..(max_display_digits(base) + k) |-> "1"], base>> :
          base \in Bases, k \in {0, 1} }

\* the (expr, base) arguments of validate_expression
ValidateInputs ==
    { <<<<"1", "2">>, "BIN">>,
      <<<<"1", "G">>, "HEX">>,
      <<<<"1", "7">>, "OCT">>,
      <<<<"1", "$", "1">>, "BIN">>,
      <<<<"-", "1", "+", "1", "0">>, "BIN">>,
      <<<<"(", "-", "1", ")", "+", "1">>, "BIN">>,
      <<<<"-", "1">>, "BIN">>,
      <<<<"+", "1">>, "BIN">>,
      <<<<"1", "+", "1", "0">>, "BIN">>,
      <<<<"1", " ", "1">>, "BIN">>,
      <<<<"(", "1", ")", "(", "1", ")">>, "BIN">>,
      <<<<"1", "+", "+", "1">>, "DEC">>,
      <<<<"(", "1", "+", "1">>, "DEC">>,
      <<<<"1", "+", "1", ")">>, "DEC">>,
      <<<<>>, "DEC">>,
      <<<<"a", "+", "1">>, "HEX">>,
      <<<<"(", "1", ")">>, "BIN">>,
      <<<<"(", " ", ")">>, "BIN">>,
      <<<<"1", "+", "(", ")">>, "BIN">>,
      <<<<"(", "1", "+", ")">>, "BIN">>,
      <<<<")", "1", "(">>, "BIN">>,
      <<<<"(", "(", "1", ")", "+", "1", ")">>, "HEX">> }
    \cup LongNumerals

\* the (number_str, base) arguments of to_decimal
ToDecimalInputs ==
    { <<<<"2">>, "DEC">>,
      <<<<"1", "0">>, "BIN">>,
      <<<<"-", "0">>, "BIN">>,
      <<<<"a">>, "HEX">>,
      <<<<"1", "2">>, "BIN">>,
      <<<<"-">>, "BIN">> }

\* the (number, base) arguments of from_decimal
FromDecimalInputs ==
    ({ PyInt(0), PyInt(2), PyFloat(2, 1), PyFloat(1, 2), PyInt(33), PyFloat(33, 1) }
     \X {"BIN", "DEC"})
    \cup { <<PyInt(0), "OCT">>,
           <<PyInt(0), "HEX">>,
           <<PyInt(-5), "BIN">>,
           <<PyInt(-26), "HEX">>,
           <<PyWide("int", 1, max_value("HEX")), "HEX">>,
           <<PyWide("int", -1, max_value("HEX")), "HEX">>,
           <<PyWide("int", 1, BigAdd(max_value("HEX"), <<1>>)), "HEX">>,
           <<PyWide("float", 1, BigAdd(max_value("HEX"), <<1>>)), "HEX">>,
           <<PyWide("int", 1, max_value("DEC")), "DEC">>,
           <<PyWide("int", -1, BigAdd(max_value("DEC"), <<1>>)), "DEC">> }

NoCall == [op |-> "none", expr |-> <<>>, num |-> NoNum, base |-> "", res |-> OkNone]

\* add_multiplication has not been called yet
NotCalled == [called |-> FALSE, ok |-> FALSE, val |-> <<>>]

Init ==
    /\ to_cache = <<>>
    /\ from_cache = <<>>
    /\ conv_cache = <<>>
    /\ last = NoCall
    /\ ncalls = 0
    /\ active_connections = 0
    /\ handler = [c \in Conns |-> NoHandler]
    /\ client = [c \in Conns |-> NewClient]
    /\ c2s = [c \in Conns |-> <<>>]
    /\ s2c = [c \in Conns |-> <<>>]
    /\ running = TRUE
    /\ accepting = TRUE
    /\ equation = <<>>
    /\ multiplied = NotCalled

CallValidate ==
    /\ ncalls < MaxCalls
    /\ \E in \in ValidateInputs :
          last' = [op |-> "validate_expression", expr |-> in[1], num |-> NoNum,
                   base |-> in[2], res |-> validate_expression(in[1], in[2])]
    /\ ncalls' = ncalls + 1
    /\ UNCHANGED <<to_cache, from_cache, conv_cache>>
    /\ UNCHANGED <<net_vars, util_vars>>

CallToDecimal ==
    /\ ncalls < MaxCalls
    /\ \E in \in ToDecimalInputs :
          \E r \in {to_decimal(to_cache, in[1], in[2])} :
              /\ last' = [op |-> "to_decimal", expr |-> in[1], num |-> NoNum,
                          base |-> in[2], res |-> r.res]
              /\ to_cache' = r.tc
    /\ ncalls' = ncalls + 1
    /\ UNCHANGED <<from_cache, conv_cache>>
    /\ UNCHANGED <<net_vars, util_vars>>

CallFromDecimal ==
    /\ ncalls < MaxCalls
    /\ \E in \in FromDecimalInputs :
          \E r \in {from_decimal(from_cache, in[1], in[2])} :
              /\ last' = [op |-> "from_decimal", expr |-> <<>>, num |-> in[1],
                          base |-> in[2], res |-> r.res]
              /\ from_cache' = r.fc
    /\ ncalls' = ncalls + 1
    /\ UNCHANGED <<to_cache, conv_cache>>
    /\ UNCHANGED <<net_vars, util_vars>>

CallConvert ==
    /\ ncalls < MaxCalls
    /\ \E in \in ConvertInputs :
          \E r \in {convert_to_decimal(to_cache, conv_cache, in[1], in[2])} :
              /\ last' = [op |-> "convert_to_decimal", expr |-> in[1], num |-> NoNum,
                          base |-> in[2], res |-> r.res]
              /\ to_cache' = r.tc
              /\ conv_cache' = r.cc
    /\ ncalls' = ncalls + 1
    /\ UNCHANGED from_cache
    /\ UNCHANGED <<net_vars, util_vars>>

CallEvaluate ==
    /\ ncalls < MaxCalls
    /\ \E in \in EvalInputs :
          \E r \in {evaluate_expression(to_cache, from_cache, conv_cache,
                                          in[1], in[2])} :
              /\ last' = [op |-> "evaluate_expression", expr |-> in[1], num |-> NoNum,
                          base |-> in[2], res |-> r.res]
              /\ to_cache' = r.tc
              /\ from_cache' = r.fc
              /\ conv_cache' = r.cc
    /\ ncalls' = ncalls + 1
    /\ UNCHANGED <<net_vars, util_vars>>

Next ==
    \/ CallValidate
    \/ CallToDecimal
    \/ CallFromDecimal
    \/ CallConvert
    \/ CallEvaluate

Spec == Init /\ [][Next]_vars

----------------------------------------------------------------------------
(* Claims                                                                  *)

IsCall(op, expr, base) == last.op = op /\ last.expr = expr /\ last.base = base

\* the value eval computes for expr in base, on a model with empty caches
ArithmeticResult(expr, base) ==
    Bind(convert_to_decimal_body(<<>>, expr, base).res, LAMBDA c :
        IF c.ok THEN PyEval(CollapseSigns(c.str))
        ELSE [exc |-> c.err, v |-> NoNum])

\* what the last call returns on a fresh model, one without any cached result
FreshResult ==
    CASE last.op = "validate_expression" -> validate_expression(last.expr, last.base)
      [] last.op = "to_decimal" -> to_decimal(<<>>, last.expr, last.base).res
      [] last.op = "from_decimal" -> from_decimal(<<>>, last.num, last.base).res
      [] last.op = "convert_to_decimal" ->
             convert_to_decimal(<<>>, <<>>, last.expr, last.base).res
      [] last.op = "evaluate_expression" ->
             evaluate_expression(<<>>, <<>>, <<>>, last.expr, last.base).res
      [] OTHER -> OkNone

\* what evaluate_expression(expr, base) returns in the current state
EvaluateNow(expr, base) ==
    evaluate_expression(to_cache, from_cache, conv_cache, expr, base).res

C1Expr == <<"1", "+", "(", "5", "-", "3", "*", "9", ")", "+", "6", "*", "9">>

\* C1 as stated: evaluate_expression("1+(5-3*9)+6*9", "DEC") returns "50"
C1_Returns50 ==
    IsCall("evaluate_expression", C1Expr, "DEC") => last.res = OkStr(<<"5", "0">>)

\* C1 amended: evaluate_expression("1+(5-3*9)+6*9", "DEC") returns "33" when it
\* is the first call on the model (1 + (5 - 27) + 54 = 33); on a model that has
\* already converted a number equal to 33 it returns the string from_decimal
\* has cached for that number, "33" or "33.0"
C1_Returns33 ==
    IsCall("evaluate_expression", C1Expr, "DEC") =>
        /\ last.res.ok
        /\ last.res.str \in {<<"3", "3">>, <<"3", "3", ".", "0">>}
        /\ ncalls = 1 => last.res.str = <<"3", "3">>
        /\ last.res.str = from_decimal(from_cache, PyInt(33), "DEC").res.str

\* C1 witness: the expression has been evaluated after an earlier call
C1_Witness ==
    /\ IsCall("evaluate_expression", C1Expr, "DEC")
    /\ ncalls = 2
    /\ last.res.str = <<"3", "3">>

\* C2: for numerals a, b of a non-decimal base and op in {+, -, *},
\* convert_to_decimal(a op b) is to_decimal(a), op, to_decimal(b) in that order,
\* and evaluate_expression(a op b) is from_decimal(to_decimal(a) op to_decimal(b)),
\* also when b is a zero numeral
C2_NumeralsReplacedOperatorsKept ==
    \A a \in BinNumerals, b \in BinNumerals, op \in {"+", "-", "*"} :
        LET va == to_decimal_body(a, "BIN").num
            vb == to_decimal_body(b, "BIN").num
        IN  /\ IsCall("convert_to_decimal", a \o <<op>> \o b, "BIN") =>
                   last.res = OkStr(StrNum(va) \o <<op>> \o StrNum(vb))
            /\ IsCall("evaluate_expression", a \o <<op>> \o b, "BIN") =>
                   last.res = from_decimal(from_cache, BinaryOp(op, va, vb, 0).v, "BIN").res

\* the canonical numeral of n >= 0 in base
CanonicalNumeral(n, base) == IF n = 0 THEN <<"0">> ELSE Digits(n, base_int(base))

\* the sums a + b the model evaluates: <<a, b, base>>
SumOperands ==
    {<<a, b, "BIN">> : a \in BinNumerals, b \in BinNumerals}
    \cup { <<<<"0", "1">>, <<"1", "1", "0">>, "BIN">>,
           <<<<"A">>, <<"1">>, "HEX">>,
           <<<<"a">>, <<"1">>, "HEX">>,
           <<<<"7">>, <<"1">>, "OCT">> }

\* C3: for numerals a, b of BIN, OCT or HEX (leading zeros allowed),
\* evaluate_expression(a + "+" + b) returns the canonical numeral of the sum
C3_SumIsCanonicalNumeral ==
    \A s \in SumOperands :
        IsCall("evaluate_expression", s[1] \o <<"+">> \o s[2], s[3]) =>
            last.res = OkStr(CanonicalNumeral(
                           to_decimal_body(s[1], s[3]).num.n
                           + to_decimal_body(s[2], s[3]).num.n, s[3]))

\* C4: when the arithmetic result in BIN, OCT or HEX is not an integer,
\* evaluate_expression fails; it never returns a result string
C4_NonIntegerResultFails ==
    (/\ last.op = "evaluate_expression"
     /\ last.base # "DEC"
     /\ ArithmeticResult(last.expr, last.base).exc = ""
     /\ ArithmeticResult(last.expr, last.base).v.d # 1) => ~last.res.ok

\* C5: every call returns what a fresh model without memoisation returns for
\* the same arguments
C5_CacheHitNeverChangesResult == last.res = FreshResult

\* the characters C6 allows in an expression of base
AllowedChar(c, base) == Upper(c) \in valid_digits(base) \/ IsOpChar(c) \/ IsSpace(c)

\* C6: validate_expression fails for every expression with a character that
\* is neither a digit of the base, an operator, a parenthesis nor whitespace
C6_ForeignCharacterRejected ==
    (/\ last.op = "validate_expression"
     /\ \E i \in DOMAIN last.expr : ~AllowedChar(last.expr[i], last.base))
    => ~last.res.ok

\* C7: evaluate_expression returns a result only for expressions that
\* validate_expression accepts, in every base, DEC included
C7_ResultOnlyForValidExpressions ==
    (last.op = "evaluate_expression" /\ last.res.ok)
    => validate_expression(last.expr, last.base).ok

\* C8: runs of signs collapse by sign multiplication: a--b evaluates as a+b,
\* a---b as a-b and a+-b as a-b
C8_SignRunsMultiply ==
    /\ IsCall("evaluate_expression", <<"5", "-", "-", "3">>, "DEC") =>
           last.res = EvaluateNow(<<"5", "+", "3">>, "DEC")
    /\ IsCall("evaluate_expression", <<"5", "-", "-", "-", "3">>, "DEC") =>
           last.res = EvaluateNow(<<"5", "-", "3">>, "DEC")
    /\ IsCall("evaluate_expression", <<"5", "+", "-", "3">>, "DEC") =>
           last.res = EvaluateNow(<<"5", "-", "3">>, "DEC")

\* expressions with one unary sign at the start or after '(' and the same
\* expression without the sign: <<signed, unsigned>>
UnarySigned ==
    { << <<"-", "1", "+", "1", "0">>, <<"1", "+", "1", "0">> >>,
      << <<"(", "-", "1", ")", "+", "1">>, <<"(", "1", ")", "+", "1">> >>,
      << <<"-", "1">>, <<"1">> >>,
      << <<"+", "1">>, <<"1">> >> }

\* C9: validate_expression accepts a well-formed expression that carries a
\* single unary sign at its start or directly after an opening parenthesis
C9_UnarySignAccepted ==
    \A u \in UnarySigned :
        (IsCall("validate_expression", u[1], "BIN")
         /\ validate_expression(u[2], "BIN").ok) => last.res.ok

\* every run of blanks in expr stands between two tokens, not inside a numeral
BlanksBetweenTokens(expr) ==
    ~\E i \in DOMAIN expr, j \in DOMAIN expr :
        /\ i + 1 < j
        /\ IsHexChar(expr[i]) /\ IsHexChar(expr[j])
        /\ \A k \in (i + 1)..(j - 1) : IsSpace(expr[k])

HasBlank(expr) == \E i \in DOMAIN expr : IsSpace(expr[i])

RemoveBlanks(expr) == SelectSeq(expr, LAMBDA c : ~IsSpace(c))

\* C10: whitespace between tokens never affects the outcome of
\* evaluate_expression: the expression without it has the same outcome
C10_WhitespaceIrrelevant ==
    (/\ last.op = "evaluate_expression"
     /\ HasBlank(last.expr)
     /\ BlanksBetweenTokens(last.expr))
    => last.res = EvaluateNow(RemoveBlanks(last.expr), last.base)

\* C11: for an integer n within the range of BIN, OCT or HEX,
\* to_decimal(from_decimal(n, base), base) = n; and from_decimal(0, base) is
\* "0" in each of the four bases
C11_RoundTrip ==
    /\ (/\ last.op = "from_decimal"
        /\ last.num.t = "int"
        /\ last.base \in {"BIN", "OCT", "HEX"}
        /\ ~ExceedsMaxValue([last.num EXCEPT !.n = Abs(@)], last.base))
       => /\ last.res.ok
          /\ to_decimal(to_cache, last.res.str, last.base).res = OkNum(last.num)
    /\ (last.op = "from_decimal" /\ last.num = PyInt(0) /\ last.base \in Bases)
       => last.res = OkStr(<<"0">>)

\* C12: from_decimal(value, base) fails for every integer of magnitude above
\* base_int ** max_digits - 1 and succeeds for every integer up to it;
\* "FFFFFFFFFFFFFFFF+1" in HEX fails as too large and "FFFFFFFFFFFFFFFF"
\* evaluates to itself
C12_OverflowBoundary ==
    /\ (last.op = "from_decimal" /\ last.num.t = "int" /\ last.base \in Bases)
       => (last.res.ok <=> ~BigLess(max_value(last.base), Mag(last.num)))
    /\ IsCall("evaluate_expression", LargestNumeral("HEX") \o <<"+", "1">>, "HEX")
       => ~last.res.ok /\ last.res.cause = "Number too large"
    /\ IsCall("evaluate_expression", LargestNumeral("HEX"), "HEX")
       => last.res = OkStr(LargestNumeral("HEX"))

\* expressions that divide by a subexpression whose value is zero
DividesByZero ==
    { <<<<"6", "/", "0">>, "DEC">>,
      <<<<"1", "/", "0">>, "BIN">>,
      <<<<"1", "/", "(", "1", "-", "1", ")">>, "BIN">>,
      <<<<"1", "/", "(", "1", "-", "1", "-", "0", ")">>, "BIN">> }

\* C13: in every base evaluate_expression fails with a division-by-zero
\* error when evaluation divides by a subexpression whose value is zero; it
\* never returns a result for such an expression
C13_DivisionByZeroFails ==
    /\ (/\ last.op = "evaluate_expression"
        /\ ArithmeticResult(last.expr, last.base).exc = "ZeroDivisionError")
       => last.res = Raise("Division by zero")
    /\ \A in \in DividesByZero :
           IsCall("evaluate_expression", in[1], in[2])
           => last.res = Raise("Division by zero")

\* expr is one numeral of base: a non-empty string of the base's digits
IsNumeral(expr, base) == expr # <<>> /\ AllValidDigits(expr, base)

\* C14: in each of the four bases validate_expression accepts a numeral of
\* exactly max_digits characters (64 BIN, 22 OCT, 20 DEC, 16 HEX) and rejects
\* a numeral one character longer with a number-too-long error
C14_MaxDigitsBoundary ==
    (/\ last.op = "validate_expression"
     /\ last.base \in Bases
     /\ IsNumeral(last.expr, last.base))
    => /\ Len(last.expr) <= max_display_digits(last.base) => last.res = OkNone
       /\ Len(last.expr) > max_display_digits(last.base)
          => last.res = Raise("Number exceeds maximum length")

\* C14 witness: numerals at the limit and one beyond it have been validated
C14_Witness ==
    /\ last.op = "validate_expression"
    /\ IsNumeral(last.expr, last.base)
    /\ Len(last.expr) = max_display_digits(last.base) + 1
    /\ last.res = Raise("Number exceeds maximum length")
    /\ ncalls = 2

\* number of '(' minus number of ')' among the first i characters of expr
Depth(expr, i) ==
    Cardinality({j \in 1..i : expr[j] = "("}) - Cardinality({j \in 1..i : expr[j] = ")"})

\* position of the last non-blank character of expr before i, 0 if none
PrevNonBlank(expr, i) ==
    IF \E j \in 1..(i - 1) : ~IsSpace(expr[j])
    THEN CHOOSE j \in 1..(i - 1) :
             ~IsSpace(expr[j]) /\ \A k \in (j + 1)..(i - 1) : IsSpace(expr[k])
    ELSE 0

\* the depth never goes negative and is zero at the end
ParenthesesBalanced(expr) ==
    /\ \A i \in DOMAIN expr : Depth(expr, i) >= 0
    /\ Depth(expr, Len(expr)) = 0

\* no ')' comes first or directly follows '(' or an operator
ParenthesesNonEmpty(expr) ==
    \A i \in DOMAIN expr :
        expr[i] = ")" =>
            /\ PrevNonBlank(expr, i) # 0
            /\ expr[PrevNonBlank(expr, i)] \notin {"(", "+", "-", "*", "/"}

\* C15: validate_expression succeeds only if the parentheses are balanced
\* and non-empty; "(1+1" is rejected as unclosed and "1+1)" as unmatched
C15_ParenthesesBalanced ==
    /\ (last.op = "validate_expression" /\ last.res.ok)
       => ParenthesesBalanced(last.expr) /\ ParenthesesNonEmpty(last.expr)
    /\ (/\ last.op = "validate_expression"
        /\ last.expr \in {<<"(", "1", "+", "1">>, <<"1", "+", "1", ")">>})
       => ~last.res.ok
    /\ IsCall("validate_expression", <<"(", "1", "+", "1">>, "DEC")
       => last.res = Raise("Unclosed parenthesis")
    /\ IsCall("validate_expression", <<"1", "+", "1", ")">>, "DEC")
       => last.res = Raise("Unmatched closing parenthesis")

\* C15 witness: an expression with nested parentheses has been accepted
C15_Witness ==
    /\ IsCall("validate_expression", <<"(", "(", "1", ")", "+", "1", ")">>, "HEX")
    /\ last.res = OkNone

\* a token of validate_expression that is a number
IsNumberToken(token) ==
    ~IsOperatorToken(token) /\ token # <<"(">> /\ token # <<")">>

\* no operand (a number, or a group in parentheses) is followed at once by
\* another operand
OperandsSeparated(tokens) ==
    \A i \in 1..(Len(tokens) - 1) :
       ~ /\ IsNumberToken(tokens[i]) \/ tokens[i] = <<")">>
         /\ IsNumberToken(tokens[i + 1]) \/ tokens[i + 1] = <<"(">>

\* C29: every expression validate_expression accepts has an operator
\* between any two adjacent operands: "1 1" and "(1)(1)" are rejected for a
\* missing operator, so that an accepted expression of a base other than
\* DEC is not evaluated as another number than the one written, nor fails
\* in evaluation for being malformed
C29_OperatorBetweenOperands ==
    /\ (last.op = "validate_expression" /\ last.res.ok)
       => OperandsSeparated(SelectNonSpace(FindValidateTokens(last.expr, 1)))
    /\ (/\ last.op = "validate_expression"
        /\ last.expr \in {<<"1", " ", "1">>, <<"(", "1", ")", "(", "1", ")">>})
       => ~last.res.ok
    /\ (/\ last.op = "evaluate_expression"
        /\ last.base # "DEC"
        /\ last.expr \in {<<"1", " ", "1">>, <<"(", "1", ")", "(", "1", ")">>})
       => ~last.res.ok

----------------------------------------------------------------------------
(* The server with its peers as state machines                             *)

\* the steps of run() and of the handle_client thread for connection c
HandlerStep(c) ==
    \/ Accept(c)
    \/ HandlerIncLoad(c)
    \/ HandlerIncStore(c)
    \/ HandlerRecv(c)
    \/ HandlerTimeout(c)
    \/ HandlerContinue(c)
    \/ HandlerEOF(c)
    \/ HandlerDecLoad(c)
    \/ HandlerDecStore(c)

\* the steps of the peer of connection c
ClientStep(c) ==
    \/ Connect(c)
    \/ ConnectAttempt(c)
    \/ SendRequest(c)
    \/ PeerSend(c)
    \/ ClientRecv(c)
    \/ ClientTimeout(c)
    \/ ClientEOF(c)
    \/ ClientClose(c)
    \/ SendRequestUnconnected(c)

\* one peer connects and talks to the server
NextConnection == HandlerStep(1) \/ ClientStep(1) \/ Stop \/ RunExit

SpecConnection == Init /\ [][NextConnection]_vars

\* the handle_client thread, being a thread, is scheduled in the end
\* whenever it can take a step
SpecConnectionFair == SpecConnection /\ WF_vars(HandlerStep(1))

\* stop() is called while one peer talks to the server: the threads of run()
\* and of handle_client are scheduled in the end for every step they can
\* take (a blocking call that can return or time out does one of them)
SpecStopFair ==
    /\ SpecConnection
    /\ WF_vars(RunExit)
    /\ WF_vars(Accept(1))
    /\ WF_vars(HandlerIncLoad(1))
    /\ WF_vars(HandlerIncStore(1))
    /\ WF_vars(HandlerRecv(1))
    /\ WF_vars(HandlerTimeout(1))
    /\ WF_vars(HandlerContinue(1))
    /\ WF_vars(HandlerEOF(1))
    /\ WF_vars(HandlerDecLoad(1))
    /\ WF_vars(HandlerDecStore(1))

\* the requests the MathClient has sent on all its connections
RECURSIVE RequestsSent(_)
RequestsSent(c) == IF c = 0 THEN 0 ELSE Len(client[c].sent) + RequestsSent(c - 1)

\* one MathClient sends up to MaxFrames requests by send_request, each
\* connection it makes being the next of Conns, while the server runs and
\* is stopped; the server is listening, so that connect() succeeds at once
NextClient ==
    \/ Stop
    \/ RunExit
    \/ Connect(1)
    \/ \E c \in Conns :
          \/ HandlerStep(c)
          \/ Reconnect(c)
          \/ ConnectAttempt(c) /\ client'[c].pc = "ready"
          \/ RequestsSent(MaxConns) < MaxFrames /\ SendRequest(c)
          \/ ClientRecv(c)
          \/ ClientTimeout(c)
          \/ ClientEOF(c)
          \/ SendRequestUnconnected(c)

SpecClient == Init /\ [][NextClient]_vars

\* several peers connect to the server and disconnect, sending nothing
NextServer ==
    \E c \in Conns :
       \/ Connect(c)
       \/ ConnectAttempt(c)
       \/ ClientClose(c)
       \/ Accept(c)
       \/ HandlerIncLoad(c)
       \/ HandlerIncStore(c)
       \/ HandlerTimeout(c)
       \/ HandlerContinue(c)
       \/ HandlerEOF(c)
       \/ HandlerDecLoad(c)
       \/ HandlerDecStore(c)

SpecServer == Init /\ [][NextServer]_vars

\* a connection attempt ends in the end (it succeeds, fails or times out
\* after connection_timeout) and so does the sleep that follows it
SpecServerFair == SpecServer /\ \A c \in Conns : WF_vars(ConnectAttempt(c))

----------------------------------------------------------------------------
(* Claims about the server and the client                                  *)

\* C16: whenever processing a request raises an error (invalid expression,
\* unknown request type, malformed or non-object JSON, undecodable bytes)
\* the server answers with one {"error": ...} frame and keeps the
\* connection open: every request read has got exactly one response when
\* the handler waits for the next one, and the handler never leaves its
\* loop because of a request
C16_ErrorKeepsConnectionOpen ==
    \A c \in Conns :
       /\ handler[c].why # "request"
       /\ (handler[c].pc = "recv_size" /\ handler[c].data = <<>>)
          => Len(handler[c].replies) = Len(handler[c].reads)

\* the payloads of the records in a history
RECURSIVE Payloads(_)
Payloads(h) == IF h = <<>> THEN <<>> ELSE <<Head(h).payload>> \o Payloads(Tail(h))

IsPrefix(s, t) == Len(s) <= Len(t) /\ SubSeq(t, 1, Len(s)) = s

\* the server has read all that the peer of c sent, or has stopped reading
ServerAtRest(c) ==
    \/ handler[c].pc = "recv_size" /\ handler[c].data = <<>> /\ c2s[c] = <<>>
    \/ handler[c].pc \in {"close", "dec", "done"}

\* C17 as stated: every message is a 4-byte big-endian length and that many
\* payload bytes, and for any sequence of such frames the reader
\* reconstructs the same payloads in the same order, however the stream is
\* split into packets and even when a recv of the server times out in the
\* middle of a frame: what each side has read are the first payloads the
\* other sent, and the server, once it has taken all the bytes or stopped,
\* has read every frame sent
C17_FramingRoundTrip ==
    \A c \in Conns :
       /\ IsPrefix(Payloads(handler[c].reads), Payloads(client[c].sent))
       /\ IsPrefix(client[c].got, Payloads(handler[c].replies))
       /\ ServerAtRest(c) => Len(handler[c].reads) = Len(client[c].sent)

\* the frame the server met when it stopped reading for a reason other
\* than a request
StoppingFrame(c) == client[c].sent[Len(handler[c].reads) + 1]

\* C17, amended: the server's reader returns the payloads of the frames it
\* reads unchanged and in sending order, however the stream is split and
\* even when recv times out in the middle of a frame, and it has read every
\* frame sent when it waits for the next one with no byte left; it stops
\* reading at a frame of 0 bytes (taken for a disconnect) and at a frame
\* announcing more than 1,048,576 bytes (answered with an error frame).
\* The client's reader returns the payloads of the responses unchanged and
\* in order; a recv that times out ends send_request with TimeoutError and
\* the socket closed
C17_FramingRoundTripBounded ==
    \A c \in Conns :
       /\ IsPrefix(Payloads(handler[c].reads), Payloads(client[c].sent))
       /\ IsPrefix(client[c].got, Payloads(handler[c].replies))
       /\ \A i \in 1..Len(handler[c].reads) :
             client[c].sent[i].size \in 1..max_message_size
       /\ (handler[c].pc = "recv_size" /\ handler[c].data = <<>> /\ c2s[c] = <<>>)
          => Len(handler[c].reads) = Len(client[c].sent)
       /\ handler[c].why = "empty" => StoppingFrame(c).size = 0
       /\ handler[c].why = "size" => StoppingFrame(c).size > max_message_size
       /\ (client[c].outcome = "TimeoutError") => client[c].sock = "none"

\* two frames were read in order on one connection, the first one across a
\* timeout in the middle of the frame, and the client has read the first
\* response
C17_Witness ==
    \E c \in Conns :
       /\ Len(handler[c].reads) = 2
       /\ handler[c].reads[1].mid
       /\ Payloads(handler[c].reads) = Payloads(client[c].sent)
       /\ Len(client[c].got) >= 1
       /\ client[c].got[1] = handler[c].replies[1].payload

\* a handle_client thread exists for connection c
HandlerRunning(c) ==
    handler[c].pc \in {"start", "inc", "recv_size", "recv_data", "close", "dec"}

\* C18: active_connections never exceeds max_connections, and a connection
\* that arrives while the limit is reached is given no handler: at most
\* max_connections handler threads exist
C18_ConnectionLimit ==
    /\ active_connections <= max_connections
    /\ Cardinality({c \in Conns : HandlerRunning(c)}) <= max_connections

\* the peer of c is connected and silent: the handler waits in recv, no
\* byte is on its way and the peer has not closed
Silent(c) ==
    /\ handler[c].pc \in {"recv_size", "recv_data"}
    /\ c2s[c] = <<>>
    /\ ~client[c].fin

\* C19: a client that sends no bytes is timed out: if the peer stays
\* silent, the server closes the connection in the end, the handler
\* thread finishes and active_connections has been decremented
C19_SilentClientTimesOut ==
    \A c \in Conns : Silent(c) ~> (~Silent(c) \/ handler[c].pc = "done")

\* connect() of client c has returned
Connected(c) == client[c].pc \notin {"new", "connecting", "raised"}

\* C20: connect() ends after at most max_retries attempts: it returns as
\* soon as one attempt succeeds, raises ConnectionError if and only if all
\* max_retries attempts fail, and sleeps retry_delay after a failed attempt
\* only when another attempt follows
C20_ConnectTerminates ==
    /\ [](\A c \in Conns :
            /\ client[c].attempts <= max_retries
            /\ client[c].pc = "connecting"
               => /\ client[c].retries < max_retries
                  /\ client[c].attempts = client[c].retries
                  /\ client[c].sleeps = client[c].retries
            /\ Connected(c)
               => /\ client[c].attempts = client[c].retries + 1
                  /\ client[c].sleeps = client[c].retries
            /\ client[c].pc = "raised"
               => /\ client[c].attempts = max_retries
                  /\ client[c].sleeps = max_retries - 1
                  /\ client[c].sock # "connected"
            /\ client[c].retries = max_retries => client[c].pc = "raised")
    /\ \A c \in Conns :
          (client[c].pc = "connecting") ~> (Connected(c) \/ client[c].pc = "raised")

\* one connect() has raised after max_retries failed attempts and two
\* sleeps, another has returned on its second attempt after one sleep
C20_Witness ==
    \E c, d \in Conns :
       /\ client[c].pc = "raised"
       /\ client[c].attempts = max_retries
       /\ client[c].sleeps = max_retries - 1
       /\ client[d].pc = "ready"
       /\ client[d].attempts = 2
       /\ client[d].sleeps = 1

\* C21: after connect() has raised ConnectionError, and after send_request
\* has failed with a timeout or a communication error, client_socket is
\* None, so that the next send_request makes a new connection
C21_FailureClearsSocket ==
    \A c \in Conns :
       (\/ client[c].pc = "raised"
        \/ client[c].outcome \in {"TimeoutError", "ConnectionError", "OSError"})
          => client[c].sock = "none"

\* the bytes the peer of c has written, and the bytes of the frames the
\* server has read whole
RECURSIVE FrameBytes(_)
FrameBytes(h) == IF h = <<>> THEN 0 ELSE 4 + Len(Head(h).payload) + FrameBytes(Tail(h))

\* the bytes the server has taken from the socket of c
Consumed(c) == FrameBytes(client[c].sent) - Len(c2s[c])

\* the server has read the header of the frame after those it has read whole
HeaderRead(c) ==
    /\ Len(handler[c].reads) < Len(client[c].sent)
    /\ Consumed(c) >= FrameBytes(handler[c].reads) + 4

\* C25: a frame whose prefix declares more than 1 MiB is never read into
\* memory: when the handler leaves its loop for the size, it has read the
\* four bytes of the prefix and nothing of the payload, it has sent
\* {"error": "Message size too large"}, it closes the connection and
\* active_connections is decremented; a prefix that declares exactly 1 MiB
\* is accepted, and the handler goes on to read the payload
C25_TooLargeNeverRead ==
    \A c \in Conns :
       /\ handler[c].why = "size" =>
             /\ Consumed(c) = FrameBytes(handler[c].reads) + 4
             /\ client[c].sent[Len(handler[c].reads) + 1].size > max_message_size
             /\ handler[c].replies # <<>>
             /\ handler[c].replies[Len(handler[c].replies)]
                   = Reply(ErrorResponse(<<"M", "e", "s", "s", "a", "g",
                                           "e", " ", "s", "i", "z", "e",
                                           " ", "t", "o", "o", " ", "l",
                                           "a", "r", "g", "e">>))
             /\ handler[c].pc \in {"close", "dec", "done"}
             /\ handler[c].pc = "done" => active_connections = 0
       /\ (/\ HeaderRead(c)
           /\ client[c].sent[Len(handler[c].reads) + 1].size = max_message_size) =>
             /\ handler[c].why # "size"
             /\ Len(handler[c].replies) = Len(handler[c].reads)
             /\ handler[c].pc = "recv_data" => handler[c].n = max_message_size
       /\ (/\ HeaderRead(c)
           /\ client[c].sent[Len(handler[c].reads) + 1].size > max_message_size) =>
             handler[c].why = "size"

C25_Witness ==
    /\ handler[1].why = "size"
    /\ handler[1].pc = "done"
    /\ handler[1].reads # <<>>
    /\ c2s[1] # <<>>

\* C26: once stop() has set running to False, the accept loop ends and
\* every handler thread leaves its loop, closes its socket and decrements
\* the counter, whatever its client does, a client that sends nothing
\* included
C26_GracefulShutdown ==
    (~running) ~>
       (/\ ~accepting
        /\ \A c \in Conns : handler[c].pc \in {"none", "pending", "done"})

\* the handle_client thread of c has incremented the counter and has not
\* decremented it yet
Counted(c) == handler[c].pc \in {"recv_size", "recv_data", "close"}

\* C27: the unsynchronised increments and decrements never lose an update:
\* whenever no thread is in the middle of "+= 1" or "-= 1",
\* active_connections is the number of handle_client invocations that have
\* started and not finished
C27_CounterIsExact ==
    (\A c \in Conns : handler[c].pc \notin {"inc", "dec"})
       => active_connections = Cardinality({c \in Conns : Counted(c)})

\* the frame payload the server answers a request payload with
ResponseTo(data) ==
    encode(json_dumps(process_request(<<>>, <<>>, <<>>,
                                      json_loads(decode(data).text).value).response))

\* C28: whatever send_request calls are made on one MathClient, those that
\* time out or fail included, a response that send_request returns is the
\* server's response to the request of that same call, never a late
\* response to an earlier request: the i-th response returned on a
\* connection is returned to the i-th request sent on it, and it is what
\* the server answered to that request
C28_ResponseMatchesRequest ==
    \A c \in Conns :
       \A i \in 1..Len(client[c].got) :
          /\ client[c].answered[i] = i
          /\ i <= Len(handler[c].reads)
          /\ handler[c].reads[i].payload = client[c].sent[i].payload
          /\ client[c].got[i] = handler[c].replies[i].payload
          /\ client[c].got[i] = ResponseTo(client[c].sent[i].payload)

C28_Witness ==
    /\ client[1].outcome = "TimeoutError"
    /\ handler[1].replies # <<>>
    /\ client[2].got # <<>>
    /\ client[2].sent[1] # client[1].sent[Len(client[1].sent)]

----------------------------------------------------------------------------
(* add_multiplication (src/ModelUtils.py, and the same code as a method of *)
(* PlotterModel)                                                           *)

\* the longest text typed into add_multiplication
MaxExprLen == 5

\* the characters typed: a digit, letters (l and n spell a function name),
\* operators, a space and a character the tokenizer does not know
ExprChars == {"2", "x", "l", "n", "-", "*", "(", ")", "^", " ", "$"}

\* sorted(functions.keys(), key=len, reverse=True): the keys of FUNCTIONS,
\* longest first, keys of one length in the order of the dictionary
FUNCTIONS ==
    << <<"s", "q", "r", "t">>, <<"a", "s", "i", "n">>,
       <<"a", "c", "o", "s">>, <<"a", "t", "a", "n">>,
       <<"f", "a", "c", "t">>, <<"s", "i", "n">>, <<"c", "o", "s">>, <<"t",
                                                                       "a",
                                                                       "n">>,
       <<"c", "o", "t">>, <<"s", "e", "c">>, <<"c", "s", "c">>, <<"l", "o",
                                                                  "g">>,
       <<"e", "x", "p">>, <<"a", "b", "s">>, <<"p", "o", "w">>, <<"l", "n">> >>

\* str.isspace, str.isdigit, str.isalpha, str.isalnum on one ASCII character
isspace(ch) == ch \in {" ", "\t", "\n", "\r"}

isdigit(ch) == ch \in {"0", "1", "2", "3", "4", "5", "6", "7", "8", "9"}

isalpha(ch) ==
    ch \in {"a", "b", "c", "d", "e", "f", "g", "h", "i", "j", "k", "l", "m",
            "n", "o", "p", "q", "r", "s", "t", "u", "v", "w", "x", "y", "z",
            "A", "B", "C", "D", "E", "F", "G", "H", "I", "J", "K", "L", "M",
            "N", "O", "P", "Q", "R", "S", "T", "U", "V", "W", "X", "Y", "Z"}

isalnum(ch) == isalpha(ch) \/ isdigit(ch)

OpChars == {"+", "-", "*", "/", "(", ")", "^", "="}

\* "expr[i] in '+-*/()^='"
IsOp_nominus(ch) == ch \in OpChars \ {"-"}

IsOp(ch) == ch \in OpChars

\* expr.replace('^', '**')
RECURSIVE ReplaceCaret(_)
ReplaceCaret(s) ==
    IF s = <<>> THEN <<>>
    ELSE (IF Head(s) = "^" THEN <<"*", "*">> ELSE <<Head(s)>>) \o ReplaceCaret(Tail(s))

\* expr[i:].startswith(func), i counted from 1
StartsWith(s, i, func) ==
    /\ i + Len(func) - 1 <= Len(s)
    /\ SubSeq(s, i, i + Len(func) - 1) = func

\* the first function name, in the order of FUNCTIONS, that expr[i:] starts
\* with; 0 when there is none
FirstFunc(s, i) ==
    IF \E k \in DOMAIN FUNCTIONS : StartsWith(s, i, FUNCTIONS[k])
    THEN CHOOSE k \in DOMAIN FUNCTIONS :
            /\ StartsWith(s, i, FUNCTIONS[k])
            /\ \A j \in 1..(k - 1) : ~StartsWith(s, i, FUNCTIONS[j])
    ELSE 0

\* "while i < len(expr) and expr[i].isspace(): i += 1"
RECURSIVE SkipSpaces(_, _)
SkipSpaces(s, i) ==
    IF i <= Len(s) /\ isspace(s[i]) THEN SkipSpaces(s, i + 1) ELSE i

\* "while i < len(expr) and paren_count > 0": the index after the
\* parenthesis that closes the call, or after the end of the text
RECURSIVE CloseParen(_, _, _)
CloseParen(s, i, paren_count) ==
    IF i <= Len(s) /\ paren_count > 0
    THEN CloseParen(s, i + 1,
                    IF s[i] = "(" THEN paren_count + 1
                    ELSE IF s[i] = ")" THEN paren_count - 1
                    ELSE paren_count)
    ELSE i

\* "while i < len(expr) and (expr[i].isdigit() or expr[i] == '.')"
RECURSIVE NumberEnd(_, _)
NumberEnd(s, i) ==
    IF i <= Len(s) /\ (isdigit(s[i]) \/ s[i] = ".") THEN NumberEnd(s, i + 1) ELSE i

\* "while i < len(expr) and (expr[i].isalnum() or expr[i] == '_')"
RECURSIVE VarEnd(_, _)
VarEnd(s, i) ==
    IF i <= Len(s) /\ (isalnum(s[i]) \/ s[i] = "_") THEN VarEnd(s, i + 1) ELSE i

Token(type, val) == [type |-> type, val |-> val]

IsFunctionName(var) == \E k \in DOMAIN FUNCTIONS : FUNCTIONS[k] = var

\* the first loop of add_multiplication, from index i on with the tokens
\* made so far: the list of tokens, or the character that raises ValueError
RECURSIVE Tokenize(_, _, _)
Tokenize(s, i, tokens) ==
    IF i > Len(s) THEN [ok |-> TRUE, tokens |-> tokens]
    ELSE IF isspace(s[i]) THEN Tokenize(s, i + 1, tokens)
    ELSE IF FirstFunc(s, i) # 0
    THEN LET func == FUNCTIONS[FirstFunc(s, i)]
             j == SkipSpaces(s, i + Len(func))
         IN  IF j <= Len(s) /\ s[j] = "("
             THEN LET e == CloseParen(s, j + 1, 1)
                  IN  Tokenize(s, e, Append(tokens,
                                   Token("func_call", SubSeq(s, i, e - 1))))
             ELSE Tokenize(s, j, Append(tokens, Token("func", func)))
    ELSE IF isdigit(s[i]) \/ (s[i] = "-" /\ i + 1 <= Len(s) /\ isdigit(s[i + 1]))
    THEN LET e == NumberEnd(s, i + 1)
         IN  Tokenize(s, e, Append(tokens, Token("number", SubSeq(s, i, e - 1))))
    ELSE IF isalpha(s[i])
    THEN LET e == VarEnd(s, i + 1)
             var == SubSeq(s, i, e - 1)
         IN  Tokenize(s, e, IF IsFunctionName(var) THEN tokens
                            ELSE Append(tokens, Token("var", var)))
    ELSE IF IsOp(s[i])
    THEN Tokenize(s, i + 1, Append(tokens, Token("op", <<s[i]>>)))
    ELSE [ok |-> FALSE, ch |-> s[i]]

\* the if/elif chain that sets needs_mult; "and" binds tighter than "or" in
\* its first condition
needs_mult(curr, next) ==
    \/ \/ curr.type = "number" /\ next.type \in {"var", "func", "func_call"}
       \/ next.type = "op" /\ next.val = <<"(">>
    \/ /\ curr.type = "op" /\ curr.val = <<")">>
       /\ next.type \in {"number", "var", "func", "func_call"}
    \/ /\ curr.type = "var"
       /\ \/ next.type \in {"number", "func", "func_call"}
          \/ next.type = "op" /\ next.val = <<"(">>
    \/ curr.type = "var" /\ next.type = "var"

\* curr_val.index('('), counted from 1
RECURSIVE IndexOfParen(_, _)
IndexOfParen(s, i) == IF s[i] = "(" THEN i ELSE IndexOfParen(s, i + 1)

\* what add_multiplication does: it returns a string or raises ValueError
Returns(val) == [called |-> TRUE, ok |-> TRUE, val |-> val]

RaisesValueError(ch) == [called |-> TRUE, ok |-> FALSE, val |-> <<ch>>]

RECURSIVE add_multiplication(_)
RECURSIVE Rebuild(_, _, _)

\* the second loop of add_multiplication, from token i on with the result
\* made so far; the arguments of a function call are processed recursively
\* as curr_val[curr_val.index('(') + 1:-1]
Rebuild(tokens, i, result) ==
    IF i > Len(tokens) THEN Returns(result)
    ELSE LET curr == tokens[i]
             p == IndexOfParen(curr.val, 1)
             processed_args == add_multiplication(SubSeq(curr.val, p + 1, Len(curr.val) - 1))
             star == IF i < Len(tokens) /\ needs_mult(curr, tokens[i + 1])
                     THEN <<"*">> ELSE <<>>
         IN  IF curr.type = "func_call"
             THEN IF processed_args.ok
                  THEN Rebuild(tokens, i + 1,
                               result \o SubSeq(curr.val, 1, p) \o processed_args.val
                                      \o <<")">> \o star)
                  ELSE processed_args
             ELSE Rebuild(tokens, i + 1, result \o curr.val \o star)

add_multiplication(s) ==
    IF s = <<>> THEN Returns(s)
    ELSE LET t == Tokenize(ReplaceCaret(s), 1, <<>>)
         IN  IF t.ok THEN Rebuild(t.tokens, 1, <<>>) ELSE RaisesValueError(t.ch)

\* a character is typed into the equation entry
TypeChar ==
    /\ ~multiplied.called
    /\ Len(equation) < MaxExprLen
    /\ \E ch \in ExprChars : equation' = Append(equation, ch)
    /\ UNCHANGED multiplied
    /\ UNCHANGED <<calc_vars, net_vars>>

\* add_multiplication is called on the text
CallAddMultiplication ==
    /\ ~multiplied.called
    /\ multiplied' = add_multiplication(equation)
    /\ UNCHANGED equation
    /\ UNCHANGED <<calc_vars, net_vars>>

NextUtils == TypeChar \/ CallAddMultiplication

SpecUtils == Init /\ [][NextUtils]_vars

\* the tokens of the text add_multiplication was called on
Tokens == Tokenize(ReplaceCaret(equation), 1, <<>>).tokens

\* C22: add_multiplication inserts "*" only after a number, a closing
\* parenthesis or a variable, never when the token on the left is an
\* operator or an opening parenthesis; a text such as "2*(x)" or "((x))"
\* comes back as it was typed
C22_NoStarAfterOperator ==
    (multiplied.called /\ multiplied.ok) =>
       /\ \A i \in 1..(Len(Tokens) - 1) :
             (Tokens[i].type = "op" /\ Tokens[i].val # <<")">>)
                => ~needs_mult(Tokens[i], Tokens[i + 1])
       /\ equation \in {<<"2", "-", "(", "2", ")">>, <<"(", "(", "x", ")",
                                                       ")">>, <<
                                                                                                                                           "2",
                                                                                                                                           "*",
                                                                                                                                           "(",
                                                                                                                                           "x",
                                                                                                                                           ")">>}
             => multiplied.val = equation

\* C23: an explicit subtraction is kept: where "-" stands between a left
\* operand (a variable, a closing parenthesis or a number) and a digit, no
\* "*" is inserted, and "x-2" comes back as "x-2"
C23_SubtractionKept ==
    (multiplied.called /\ multiplied.ok) =>
       /\ \A i \in 1..(Len(Tokens) - 1) :
             (/\ \/ Tokens[i].type \in {"var", "number"}
                 \/ Tokens[i].type = "op" /\ Tokens[i].val = <<")">>
              /\ Tokens[i + 1].type = "number"
              /\ Head(Tokens[i + 1].val) = "-")
                => ~needs_mult(Tokens[i], Tokens[i + 1])
       /\ equation \in {<<"x", "-", "2">>, <<"(", "x", ")", "-", "2">>, <<
                                                                          "2",
                                                                          "-",
                                                                          "2">>}
             => multiplied.val = equation

\* C24: add_multiplication is total: whatever the text, the call ends and
\* returns a string, it never raises
C24_NeverRaises ==
    multiplied.called => multiplied.ok

\* the characters that can stand in a text add_multiplication accepts
\* wherever they are
PlainChar(ch) == isspace(ch) \/ isalnum(ch) \/ ch \in OpChars

\* C24 as the code has it: the call ends on every text, and it returns a
\* string unless the text has a character that is no space, letter, digit
\* or operator, which then is what ValueError is raised for (a dot or an
\* underscore that starts a token raises it too)
C24_RaisesOnlyValueError ==
    multiplied.called =>
       /\ (\A i \in DOMAIN equation : PlainChar(equation[i])) => multiplied.ok
       /\ ~multiplied.ok =>
             \E i \in DOMAIN equation :
                /\ ~PlainChar(equation[i])
                /\ multiplied.val = <<equation[i]>>

C24_Witness ==
    /\ multiplied.called
    /\ ~multiplied.ok
    /\ Len(equation) = MaxExprLen

====
